---------------------------- MODULE Spec2Model ----------------------------
(***************************************************************************)
(* A model of util/options_helper.cc: the option-string tokenizer          *)
(* StringToMap, the value coercers, and the dispatchers that apply an      *)
(* option map to a copy of a base configuration.                           *)
(*                                                                         *)
(* A std::string is a sequence of one-character strings.  Positions are    *)
(* the 0-based positions of the C++ code, so the character at C++ position *)
(* i of s is s[i + 1].                                                     *)
(***************************************************************************)
EXTENDS Integers, Sequences, FiniteSets, TLC

VARIABLES
    api,            \* the public operation being run
    opts_str,       \* StringToMap: the input string
    opts,           \* StringToMap: the trimmed input (local `opts`)
    pos,            \* StringToMap: the read position (local `pos`)
    opts_map,       \* the option map StringToMap fills / the apply operations read
    oob,            \* TRUE once trim has read str[size() - 1] of an empty string
    entries,        \* the (key, value) entries the input string was formatted from
    base_options,   \* the base configuration the caller passes
    new_options,    \* the configuration the caller's output pointer refers to
    visited,        \* the options the apply loop has visited, in order
    pc,             \* "tokenize", "loop", "apply", "visit", "done"
    status          \* the Status the operation returned, or Pending

vars == <<api, opts_str, opts, pos, opts_map, oob, entries, base_options,
          new_options, visited, pc, status>>

(***************************************************************************)
(* Bounds of the checked inputs.                                           *)
(***************************************************************************)
MaxLen == 5
MaxEntries == 3
MaxOpts == 2

(***************************************************************************)
(* std::string                                                             *)
(***************************************************************************)
npos == -1

Size(s) == Len(s)

\* s[i] for 0 <= i <= size(): s[size()] is the terminating '\0'.
At(s, i) == IF i < Len(s) THEN s[i + 1] ELSE "\\0"

\* s.substr(p, n), n clamped to the rest of the string; p <= size().
Substr(s, p, n) ==
    LET m == IF p + n > Len(s) THEN Len(s) - p ELSE n
    IN  IF m <= 0 THEN <<>> ELSE SubSeq(s, p + 1, p + m)

\* s.substr(p)
SubstrFrom(s, p) == Substr(s, p, Len(s) - p)

RECURSIVE Find(_, _, _)
\* s.find(c, p): the first position >= p holding c, or npos.
Find(s, c, p) ==
    IF p >= Len(s) THEN npos
    ELSE IF s[p + 1] = c THEN p
    ELSE Find(s, c, p + 1)

\* s.compare(0, n, t) == 0
StartsWith(s, t) == Substr(s, 0, Len(t)) = t

\* isspace in the "C" locale; the model's strings hold only these of its characters.
isspace(c) == c \in {" ", "\t", "\n"}

(***************************************************************************)
(* The string literals of the code, and the option values of the checked   *)
(* inputs (v_...), as character sequences.                                 *)
(***************************************************************************)
Lit == [
    write_buffer_size |-> <<"w", "r", "i", "t", "e", "_", "b", "u", "f", "f", "e", "r", "_",
        "s", "i", "z", "e">>,
    arena_block_size |-> <<"a", "r", "e", "n", "a", "_", "b", "l", "o", "c", "k", "_", "s",
        "i", "z", "e">>,
    memtable_prefix_bloom_bits |-> <<"m", "e", "m", "t", "a", "b", "l", "e", "_", "p", "r",
        "e", "f", "i", "x", "_", "b", "l", "o", "o", "m", "_", "b", "i", "t", "s">>,
    memtable_prefix_bloom_probes |-> <<"m", "e", "m", "t", "a", "b", "l", "e", "_", "p", "r",
        "e", "f", "i", "x", "_", "b", "l", "o", "o", "m", "_", "p", "r", "o", "b", "e", "s">>,
    memtable_prefix_bloom_huge_page_tlb_size |-> <<"m", "e", "m", "t", "a", "b", "l", "e", "_",
        "p", "r", "e", "f", "i", "x", "_", "b", "l", "o", "o", "m", "_", "h", "u", "g", "e",
        "_", "p", "a", "g", "e", "_", "t", "l", "b", "_", "s", "i", "z", "e">>,
    max_successive_merges |-> <<"m", "a", "x", "_", "s", "u", "c", "c", "e", "s", "s", "i",
        "v", "e", "_", "m", "e", "r", "g", "e", "s">>,
    filter_deletes |-> <<"f", "i", "l", "t", "e", "r", "_", "d", "e", "l", "e", "t", "e", "s">>,
    max_write_buffer_number |-> <<"m", "a", "x", "_", "w", "r", "i", "t", "e", "_", "b", "u",
        "f", "f", "e", "r", "_", "n", "u", "m", "b", "e", "r">>,
    inplace_update_num_locks |-> <<"i", "n", "p", "l", "a", "c", "e", "_", "u", "p", "d", "a",
        "t", "e", "_", "n", "u", "m", "_", "l", "o", "c", "k", "s">>,
    disable_auto_compactions |-> <<"d", "i", "s", "a", "b", "l", "e", "_", "a", "u", "t", "o",
        "_", "c", "o", "m", "p", "a", "c", "t", "i", "o", "n", "s">>,
    soft_rate_limit |-> <<"s", "o", "f", "t", "_", "r", "a", "t", "e", "_", "l", "i", "m", "i",
        "t">>,
    hard_rate_limit |-> <<"h", "a", "r", "d", "_", "r", "a", "t", "e", "_", "l", "i", "m", "i",
        "t">>,
    level0_file_num_compaction_trigger |-> <<"l", "e", "v", "e", "l", "0", "_", "f", "i", "l",
        "e", "_", "n", "u", "m", "_", "c", "o", "m", "p", "a", "c", "t", "i", "o", "n", "_",
        "t", "r", "i", "g", "g", "e", "r">>,
    level0_slowdown_writes_trigger |-> <<"l", "e", "v", "e", "l", "0", "_", "s", "l", "o", "w",
        "d", "o", "w", "n", "_", "w", "r", "i", "t", "e", "s", "_", "t", "r", "i", "g", "g",
        "e", "r">>,
    level0_stop_writes_trigger |-> <<"l", "e", "v", "e", "l", "0", "_", "s", "t", "o", "p",
        "_", "w", "r", "i", "t", "e", "s", "_", "t", "r", "i", "g", "g", "e", "r">>,
    max_grandparent_overlap_factor |-> <<"m", "a", "x", "_", "g", "r", "a", "n", "d", "p", "a",
        "r", "e", "n", "t", "_", "o", "v", "e", "r", "l", "a", "p", "_", "f", "a", "c", "t",
        "o", "r">>,
    expanded_compaction_factor |-> <<"e", "x", "p", "a", "n", "d", "e", "d", "_", "c", "o",
        "m", "p", "a", "c", "t", "i", "o", "n", "_", "f", "a", "c", "t", "o", "r">>,
    source_compaction_factor |-> <<"s", "o", "u", "r", "c", "e", "_", "c", "o", "m", "p", "a",
        "c", "t", "i", "o", "n", "_", "f", "a", "c", "t", "o", "r">>,
    target_file_size_base |-> <<"t", "a", "r", "g", "e", "t", "_", "f", "i", "l", "e", "_",
        "s", "i", "z", "e", "_", "b", "a", "s", "e">>,
    target_file_size_multiplier |-> <<"t", "a", "r", "g", "e", "t", "_", "f", "i", "l", "e",
        "_", "s", "i", "z", "e", "_", "m", "u", "l", "t", "i", "p", "l", "i", "e", "r">>,
    max_bytes_for_level_base |-> <<"m", "a", "x", "_", "b", "y", "t", "e", "s", "_", "f", "o",
        "r", "_", "l", "e", "v", "e", "l", "_", "b", "a", "s", "e">>,
    max_bytes_for_level_multiplier |-> <<"m", "a", "x", "_", "b", "y", "t", "e", "s", "_", "f",
        "o", "r", "_", "l", "e", "v", "e", "l", "_", "m", "u", "l", "t", "i", "p", "l", "i",
        "e", "r">>,
    max_bytes_for_level_multiplier_additional |-> <<"m", "a", "x", "_", "b", "y", "t", "e",
        "s", "_", "f", "o", "r", "_", "l", "e", "v", "e", "l", "_", "m", "u", "l", "t", "i",
        "p", "l", "i", "e", "r", "_", "a", "d", "d", "i", "t", "i", "o", "n", "a", "l">>,
    max_mem_compaction_level |-> <<"m", "a", "x", "_", "m", "e", "m", "_", "c", "o", "m", "p",
        "a", "c", "t", "i", "o", "n", "_", "l", "e", "v", "e", "l">>,
    verify_checksums_in_compaction |-> <<"v", "e", "r", "i", "f", "y", "_", "c", "h", "e", "c",
        "k", "s", "u", "m", "s", "_", "i", "n", "_", "c", "o", "m", "p", "a", "c", "t", "i",
        "o", "n">>,
    max_sequential_skip_in_iterations |-> <<"m", "a", "x", "_", "s", "e", "q", "u", "e", "n",
        "t", "i", "a", "l", "_", "s", "k", "i", "p", "_", "i", "n", "_", "i", "t", "e", "r",
        "a", "t", "i", "o", "n", "s">>,
    cache_index_and_filter_blocks |-> <<"c", "a", "c", "h", "e", "_", "i", "n", "d", "e", "x",
        "_", "a", "n", "d", "_", "f", "i", "l", "t", "e", "r", "_", "b", "l", "o", "c", "k",
        "s">>,
    index_type |-> <<"i", "n", "d", "e", "x", "_", "t", "y", "p", "e">>,
    hash_index_allow_collision |-> <<"h", "a", "s", "h", "_", "i", "n", "d", "e", "x", "_",
        "a", "l", "l", "o", "w", "_", "c", "o", "l", "l", "i", "s", "i", "o", "n">>,
    checksum |-> <<"c", "h", "e", "c", "k", "s", "u", "m">>,
    no_block_cache |-> <<"n", "o", "_", "b", "l", "o", "c", "k", "_", "c", "a", "c", "h", "e">>,
    block_cache |-> <<"b", "l", "o", "c", "k", "_", "c", "a", "c", "h", "e">>,
    block_cache_compressed |-> <<"b", "l", "o", "c", "k", "_", "c", "a", "c", "h", "e", "_",
        "c", "o", "m", "p", "r", "e", "s", "s", "e", "d">>,
    block_size |-> <<"b", "l", "o", "c", "k", "_", "s", "i", "z", "e">>,
    block_size_deviation |-> <<"b", "l", "o", "c", "k", "_", "s", "i", "z", "e", "_", "d", "e",
        "v", "i", "a", "t", "i", "o", "n">>,
    block_restart_interval |-> <<"b", "l", "o", "c", "k", "_", "r", "e", "s", "t", "a", "r",
        "t", "_", "i", "n", "t", "e", "r", "v", "a", "l">>,
    filter_policy |-> <<"f", "i", "l", "t", "e", "r", "_", "p", "o", "l", "i", "c", "y">>,
    whole_key_filtering |-> <<"w", "h", "o", "l", "e", "_", "k", "e", "y", "_", "f", "i", "l",
        "t", "e", "r", "i", "n", "g">>,
    block_based_table_factory |-> <<"b", "l", "o", "c", "k", "_", "b", "a", "s", "e", "d", "_",
        "t", "a", "b", "l", "e", "_", "f", "a", "c", "t", "o", "r", "y">>,
    min_write_buffer_number_to_merge |-> <<"m", "i", "n", "_", "w", "r", "i", "t", "e", "_",
        "b", "u", "f", "f", "e", "r", "_", "n", "u", "m", "b", "e", "r", "_", "t", "o", "_",
        "m", "e", "r", "g", "e">>,
    compression |-> <<"c", "o", "m", "p", "r", "e", "s", "s", "i", "o", "n">>,
    compression_per_level |-> <<"c", "o", "m", "p", "r", "e", "s", "s", "i", "o", "n", "_",
        "p", "e", "r", "_", "l", "e", "v", "e", "l">>,
    compression_opts |-> <<"c", "o", "m", "p", "r", "e", "s", "s", "i", "o", "n", "_", "o",
        "p", "t", "s">>,
    num_levels |-> <<"n", "u", "m", "_", "l", "e", "v", "e", "l", "s">>,
    purge_redundant_kvs_while_flush |-> <<"p", "u", "r", "g", "e", "_", "r", "e", "d", "u",
        "n", "d", "a", "n", "t", "_", "k", "v", "s", "_", "w", "h", "i", "l", "e", "_", "f",
        "l", "u", "s", "h">>,
    compaction_style |-> <<"c", "o", "m", "p", "a", "c", "t", "i", "o", "n", "_", "s", "t",
        "y", "l", "e">>,
    compaction_options_universal |-> <<"c", "o", "m", "p", "a", "c", "t", "i", "o", "n", "_",
        "o", "p", "t", "i", "o", "n", "s", "_", "u", "n", "i", "v", "e", "r", "s", "a", "l">>,
    compaction_options_fifo |-> <<"c", "o", "m", "p", "a", "c", "t", "i", "o", "n", "_", "o",
        "p", "t", "i", "o", "n", "s", "_", "f", "i", "f", "o">>,
    bloom_locality |-> <<"b", "l", "o", "o", "m", "_", "l", "o", "c", "a", "l", "i", "t", "y">>,
    min_partial_merge_operands |-> <<"m", "i", "n", "_", "p", "a", "r", "t", "i", "a", "l",
        "_", "m", "e", "r", "g", "e", "_", "o", "p", "e", "r", "a", "n", "d", "s">>,
    inplace_update_support |-> <<"i", "n", "p", "l", "a", "c", "e", "_", "u", "p", "d", "a",
        "t", "e", "_", "s", "u", "p", "p", "o", "r", "t">>,
    prefix_extractor |-> <<"p", "r", "e", "f", "i", "x", "_", "e", "x", "t", "r", "a", "c",
        "t", "o", "r">>,
    create_if_missing |-> <<"c", "r", "e", "a", "t", "e", "_", "i", "f", "_", "m", "i", "s",
        "s", "i", "n", "g">>,
    create_missing_column_families |-> <<"c", "r", "e", "a", "t", "e", "_", "m", "i", "s", "s",
        "i", "n", "g", "_", "c", "o", "l", "u", "m", "n", "_", "f", "a", "m", "i", "l", "i",
        "e", "s">>,
    error_if_exists |-> <<"e", "r", "r", "o", "r", "_", "i", "f", "_", "e", "x", "i", "s", "t",
        "s">>,
    paranoid_checks |-> <<"p", "a", "r", "a", "n", "o", "i", "d", "_", "c", "h", "e", "c", "k",
        "s">>,
    max_open_files |-> <<"m", "a", "x", "_", "o", "p", "e", "n", "_", "f", "i", "l", "e", "s">>,
    max_total_wal_size |-> <<"m", "a", "x", "_", "t", "o", "t", "a", "l", "_", "w", "a", "l",
        "_", "s", "i", "z", "e">>,
    disable_data_sync |-> <<"d", "i", "s", "a", "b", "l", "e", "_", "d", "a", "t", "a", "_",
        "s", "y", "n", "c">>,
    use_fsync |-> <<"u", "s", "e", "_", "f", "s", "y", "n", "c">>,
    db_paths |-> <<"d", "b", "_", "p", "a", "t", "h", "s">>,
    db_log_dir |-> <<"d", "b", "_", "l", "o", "g", "_", "d", "i", "r">>,
    wal_dir |-> <<"w", "a", "l", "_", "d", "i", "r">>,
    delete_obsolete_files_period_micros |-> <<"d", "e", "l", "e", "t", "e", "_", "o", "b", "s",
        "o", "l", "e", "t", "e", "_", "f", "i", "l", "e", "s", "_", "p", "e", "r", "i", "o",
        "d", "_", "m", "i", "c", "r", "o", "s">>,
    max_background_compactions |-> <<"m", "a", "x", "_", "b", "a", "c", "k", "g", "r", "o",
        "u", "n", "d", "_", "c", "o", "m", "p", "a", "c", "t", "i", "o", "n", "s">>,
    max_background_flushes |-> <<"m", "a", "x", "_", "b", "a", "c", "k", "g", "r", "o", "u",
        "n", "d", "_", "f", "l", "u", "s", "h", "e", "s">>,
    max_log_file_size |-> <<"m", "a", "x", "_", "l", "o", "g", "_", "f", "i", "l", "e", "_",
        "s", "i", "z", "e">>,
    log_file_time_to_roll |-> <<"l", "o", "g", "_", "f", "i", "l", "e", "_", "t", "i", "m",
        "e", "_", "t", "o", "_", "r", "o", "l", "l">>,
    keep_log_file_num |-> <<"k", "e", "e", "p", "_", "l", "o", "g", "_", "f", "i", "l", "e",
        "_", "n", "u", "m">>,
    max_manifest_file_size |-> <<"m", "a", "x", "_", "m", "a", "n", "i", "f", "e", "s", "t",
        "_", "f", "i", "l", "e", "_", "s", "i", "z", "e">>,
    table_cache_numshardbits |-> <<"t", "a", "b", "l", "e", "_", "c", "a", "c", "h", "e", "_",
        "n", "u", "m", "s", "h", "a", "r", "d", "b", "i", "t", "s">>,
    table_cache_remove_scan_count_limit |-> <<"t", "a", "b", "l", "e", "_", "c", "a", "c", "h",
        "e", "_", "r", "e", "m", "o", "v", "e", "_", "s", "c", "a", "n", "_", "c", "o", "u",
        "n", "t", "_", "l", "i", "m", "i", "t">>,
    WAL_ttl_seconds |-> <<"W", "A", "L", "_", "t", "t", "l", "_", "s", "e", "c", "o", "n", "d",
        "s">>,
    WAL_size_limit_MB |-> <<"W", "A", "L", "_", "s", "i", "z", "e", "_", "l", "i", "m", "i",
        "t", "_", "M", "B">>,
    manifest_preallocation_size |-> <<"m", "a", "n", "i", "f", "e", "s", "t", "_", "p", "r",
        "e", "a", "l", "l", "o", "c", "a", "t", "i", "o", "n", "_", "s", "i", "z", "e">>,
    allow_os_buffer |-> <<"a", "l", "l", "o", "w", "_", "o", "s", "_", "b", "u", "f", "f", "e",
        "r">>,
    allow_mmap_reads |-> <<"a", "l", "l", "o", "w", "_", "m", "m", "a", "p", "_", "r", "e",
        "a", "d", "s">>,
    allow_mmap_writes |-> <<"a", "l", "l", "o", "w", "_", "m", "m", "a", "p", "_", "w", "r",
        "i", "t", "e", "s">>,
    is_fd_close_on_exec |-> <<"i", "s", "_", "f", "d", "_", "c", "l", "o", "s", "e", "_", "o",
        "n", "_", "e", "x", "e", "c">>,
    skip_log_error_on_recovery |-> <<"s", "k", "i", "p", "_", "l", "o", "g", "_", "e", "r",
        "r", "o", "r", "_", "o", "n", "_", "r", "e", "c", "o", "v", "e", "r", "y">>,
    stats_dump_period_sec |-> <<"s", "t", "a", "t", "s", "_", "d", "u", "m", "p", "_", "p",
        "e", "r", "i", "o", "d", "_", "s", "e", "c">>,
    advise_random_on_open |-> <<"a", "d", "v", "i", "s", "e", "_", "r", "a", "n", "d", "o",
        "m", "_", "o", "n", "_", "o", "p", "e", "n">>,
    db_write_buffer_size |-> <<"d", "b", "_", "w", "r", "i", "t", "e", "_", "b", "u", "f", "f",
        "e", "r", "_", "s", "i", "z", "e">>,
    use_adaptive_mutex |-> <<"u", "s", "e", "_", "a", "d", "a", "p", "t", "i", "v", "e", "_",
        "m", "u", "t", "e", "x">>,
    bytes_per_sync |-> <<"b", "y", "t", "e", "s", "_", "p", "e", "r", "_", "s", "y", "n", "c">>,
    not_a_real_option |-> <<"n", "o", "t", "_", "a", "_", "r", "e", "a", "l", "_", "o", "p",
        "t", "i", "o", "n">>,
    kNoCompression |-> <<"k", "N", "o", "C", "o", "m", "p", "r", "e", "s", "s", "i", "o", "n">>,
    kSnappyCompression |-> <<"k", "S", "n", "a", "p", "p", "y", "C", "o", "m", "p", "r", "e",
        "s", "s", "i", "o", "n">>,
    kZlibCompression |-> <<"k", "Z", "l", "i", "b", "C", "o", "m", "p", "r", "e", "s", "s",
        "i", "o", "n">>,
    kBZip2Compression |-> <<"k", "B", "Z", "i", "p", "2", "C", "o", "m", "p", "r", "e", "s",
        "s", "i", "o", "n">>,
    kLZ4Compression |-> <<"k", "L", "Z", "4", "C", "o", "m", "p", "r", "e", "s", "s", "i", "o",
        "n">>,
    kLZ4HCCompression |-> <<"k", "L", "Z", "4", "H", "C", "C", "o", "m", "p", "r", "e", "s",
        "s", "i", "o", "n">>,
    kBinarySearch |-> <<"k", "B", "i", "n", "a", "r", "y", "S", "e", "a", "r", "c", "h">>,
    kHashSearch |-> <<"k", "H", "a", "s", "h", "S", "e", "a", "r", "c", "h">>,
    kNoChecksum |-> <<"k", "N", "o", "C", "h", "e", "c", "k", "s", "u", "m">>,
    kCRC32c |-> <<"k", "C", "R", "C", "3", "2", "c">>,
    kxxHash |-> <<"k", "x", "x", "H", "a", "s", "h">>,
    kCompactionStyleLevel |-> <<"k", "C", "o", "m", "p", "a", "c", "t", "i", "o", "n", "S",
        "t", "y", "l", "e", "L", "e", "v", "e", "l">>,
    kCompactionStyleUniversal |-> <<"k", "C", "o", "m", "p", "a", "c", "t", "i", "o", "n", "S",
        "t", "y", "l", "e", "U", "n", "i", "v", "e", "r", "s", "a", "l">>,
    kCompactionStyleFIFO |-> <<"k", "C", "o", "m", "p", "a", "c", "t", "i", "o", "n", "S", "t",
        "y", "l", "e", "F", "I", "F", "O">>,
    true |-> <<"t", "r", "u", "e">>,
    false |-> <<"f", "a", "l", "s", "e">>,
    one |-> <<"1">>,
    zero |-> <<"0">>,
    bloomfilter_ |-> <<"b", "l", "o", "o", "m", "f", "i", "l", "t", "e", "r", ":">>,
    fixed_ |-> <<"f", "i", "x", "e", "d", ":">>,
    use_block_based_builder |-> <<"u", "s", "e", "_", "b", "l", "o", "c", "k", "_", "b", "a",
        "s", "e", "d", "_", "b", "u", "i", "l", "d", "e", "r">>,
    stoull |-> <<"s", "t", "o", "u", "l", "l">>,
    stoi |-> <<"s", "t", "o", "i">>,
    stod |-> <<"s", "t", "o", "d">>,
    colon |-> <<":">>,
    msg_unknown_compression |-> <<"U", "n", "k", "n", "o", "w", "n", " ", "c", "o", "m", "p",
        "r", "e", "s", "s", "i", "o", "n", " ", "t", "y", "p", "e", ":", " ">>,
    msg_unknown_index |-> <<"U", "n", "k", "n", "o", "w", "n", " ", "i", "n", "d", "e", "x",
        " ", "t", "y", "p", "e", ":", " ">>,
    msg_unknown_checksum |-> <<"U", "n", "k", "n", "o", "w", "n", " ", "c", "h", "e", "c", "k",
        "s", "u", "m", " ", "t", "y", "p", "e", ":", " ">>,
    msg_unknown_style |-> <<"u", "n", "k", "n", "o", "w", "n", " ", "c", "o", "m", "p", "a",
        "c", "t", "i", "o", "n", " ", "s", "t", "y", "l", "e", ":", " ">>,
    msg_unsupported_dynamic |-> <<"u", "n", "s", "u", "p", "p", "o", "r", "t", "e", "d", " ",
        "d", "y", "n", "a", "m", "i", "c", " ", "o", "p", "t", "i", "o", "n", ":", " ">>,
    msg_error_parsing |-> <<"e", "r", "r", "o", "r", " ", "p", "a", "r", "s", "i", "n", "g",
        " ">>,
    msg_mismatched_pair |-> <<"M", "i", "s", "m", "a", "t", "c", "h", "e", "d", " ", "k", "e",
        "y", " ", "v", "a", "l", "u", "e", " ", "p", "a", "i", "r", ",", " ", "'", "=", "'",
        " ", "e", "x", "p", "e", "c", "t", "e", "d">>,
    msg_empty_key |-> <<"E", "m", "p", "t", "y", " ", "k", "e", "y", " ", "f", "o", "u", "n",
        "d">>,
    msg_unexpected_chars |-> <<"U", "n", "e", "x", "p", "e", "c", "t", "e", "d", " ", "c", "h",
        "a", "r", "s", " ", "a", "f", "t", "e", "r", " ", "n", "e", "s", "t", "e", "d", " ",
        "o", "p", "t", "i", "o", "n", "s">>,
    msg_mismatched_braces |-> <<"M", "i", "s", "m", "a", "t", "c", "h", "e", "d", " ", "c",
        "u", "r", "l", "y", " ", "b", "r", "a", "c", "e", "s", " ", "f", "o", "r", " ", "n",
        "e", "s", "t", "e", "d", " ", "o", "p", "t", "i", "o", "n", "s">>,
    msg_invalid_filter_name |-> <<"I", "n", "v", "a", "l", "i", "d", " ", "f", "i", "l", "t",
        "e", "r", " ", "p", "o", "l", "i", "c", "y", " ", "n", "a", "m", "e">>,
    msg_missing_bits_per_key |-> <<"I", "n", "v", "a", "l", "i", "d", " ", "f", "i", "l", "t",
        "e", "r", " ", "p", "o", "l", "i", "c", "y", " ", "c", "o", "n", "f", "i", "g", ",",
        " ", "m", "i", "s", "s", "i", "n", "g", " ", "b", "i", "t", "s", "_", "p", "e", "r",
        "_", "k", "e", "y">>,
    msg_unrecognized |-> <<"U", "n", "r", "e", "c", "o", "g", "n", "i", "z", "e", "d", " ",
        "o", "p", "t", "i", "o", "n", ":", " ">>,
    msg_invalid_config_value |-> <<"i", "n", "v", "a", "l", "i", "d", " ", "c", "o", "n", "f",
        "i", "g", " ", "v", "a", "l", "u", "e", " ", "f", "o", "r", ":", " ">>,
    msg_not_supported |-> <<"N", "o", "t", " ", "s", "u", "p", "p", "o", "r", "t", "e", "d",
        ":", " ">>,
    msg_invalid_prefix_extractor |-> <<"I", "n", "v", "a", "l", "i", "d", " ", "P", "r", "e",
        "f", "i", "x", " ", "E", "x", "t", "r", "a", "c", "t", "o", "r", " ", "t", "y", "p",
        "e", ":", " ">>,
    v_empty |-> <<>>,
    v_bogus |-> <<"b", "o", "g", "u", "s">>,
    v_4k |-> <<"4", "k">>,
    v_2m |-> <<"2", "m">>,
    v_1g |-> <<"1", "g">>,
    v_5g |-> <<"5", "g">>,
    v_16777216t |-> <<"1", "6", "7", "7", "7", "2", "1", "6", "t">>,
    v_99999999999 |-> <<"9", "9", "9", "9", "9", "9", "9", "9", "9", "9", "9">>,
    v_minus1 |-> <<"-", "1">>,
    v_1_5 |-> <<"1", ".", "5">>,
    v_8192 |-> <<"8", "1", "9", "2">>,
    v_10 |-> <<"1", "0">>,
    v_comp_list |-> <<"k", "N", "o", "C", "o", "m", "p", "r", "e", "s", "s", "i", "o", "n",
        ":", "k", "Z", "l", "i", "b", "C", "o", "m", "p", "r", "e", "s", "s", "i", "o", "n">>,
    v_comp_list_bad |-> <<"k", "N", "o", "C", "o", "m", "p", "r", "e", "s", "s", "i", "o", "n",
        ":", "b", "o", "g", "u", "s">>,
    v_1_2_3 |-> <<"1", ":", "2", ":", "3">>,
    v_1_2 |-> <<"1", ":", "2">>,
    v_1_2_ |-> <<"1", ":", "2", ":">>,
    v_1_2_3_4 |-> <<"1", ":", "2", ":", "3", ":", "4">>,
    v_bloom_10_true |-> <<"b", "l", "o", "o", "m", "f", "i", "l", "t", "e", "r", ":", "1", "0",
        ":", "t", "r", "u", "e">>,
    v_bloom_10 |-> <<"b", "l", "o", "o", "m", "f", "i", "l", "t", "e", "r", ":", "1", "0">>,
    v_bloom_10_true_1 |-> <<"b", "l", "o", "o", "m", "f", "i", "l", "t", "e", "r", ":", "1",
        "0", ":", "t", "r", "u", "e", ":", "1">>,
    v_bloom_bad_tag |-> <<"b", "l", "o", "o", "m", ":", "1", "0", ":", "t", "r", "u", "e">>,
    v_bloom_empty_bits |-> <<"b", "l", "o", "o", "m", "f", "i", "l", "t", "e", "r", ":", ":",
        "t", "r", "u", "e">>,
    v_fixed_8 |-> <<"f", "i", "x", "e", "d", ":", "8">>,
    v_fixed_8_9 |-> <<"f", "i", "x", "e", "d", ":", "8", ":", "9">>,
    v_fixed_ |-> <<"f", "i", "x", "e", "d", ":">>,
    v_8 |-> <<"8">>,
    v_tbl_ok |-> <<"b", "l", "o", "c", "k", "_", "s", "i", "z", "e", "=", "8", "1", "9", "2",
        ";", "b", "l", "o", "c", "k", "_", "r", "e", "s", "t", "a", "r", "t", "_", "i", "n",
        "t", "e", "r", "v", "a", "l", "=", "4">>,
    v_tbl_bad_value |-> <<"b", "l", "o", "c", "k", "_", "s", "i", "z", "e", "=", "a", "b", "c">>,
    v_tbl_bad_key |-> <<"n", "o", "t", "_", "a", "_", "r", "e", "a", "l", "_", "o", "p", "t",
        "i", "o", "n", "=", "1">>,
    v_tbl_two_bad |-> <<"c", "h", "e", "c", "k", "s", "u", "m", "=", "b", "o", "g", "u", "s",
        ";", "n", "o", "t", "_", "a", "_", "r", "e", "a", "l", "_", "o", "p", "t", "i", "o",
        "n", "=", "1">>,
    v_tbl_no_eq |-> <<"b", "l", "o", "c", "k", "_", "s", "i", "z", "e">>,
    v_tbl_filter |-> <<"f", "i", "l", "t", "e", "r", "_", "p", "o", "l", "i", "c", "y", "=",
        "b", "l", "o", "o", "m", "f", "i", "l", "t", "e", "r", ":", "1", "0", ":", "t", "r",
        "u", "e", ";", "b", "l", "o", "c", "k", "_", "c", "a", "c", "h", "e", "=", "2", "m">>
]

(***************************************************************************)
(* Status                                                                  *)
(***************************************************************************)
Pending == [code |-> "Pending", msg |-> <<>>]
OK == [code |-> "OK", msg |-> <<>>]
InvalidArgument(m) == [code |-> "InvalidArgument", msg |-> m]
\* A reserved key reported with the kind of every other failure
NotSupportedAsInvalid(m) == [code |-> "InvalidArgument", msg |-> m]
NotSupported(m) == [code |-> "NotSupported", msg |-> m]

(***************************************************************************)
(* trim                                                                    *)
(***************************************************************************)
RECURSIVE TrimStart(_, _, _)
\* while (isspace(str[start]) != 0 && start <= end) ++start;
TrimStart(str, start, end) ==
    IF isspace(At(str, start)) /\ start <= end
    THEN TrimStart(str, start + 1, end)
    ELSE start

RECURSIVE TrimEnd(_, _, _)
\* while (isspace(str[end]) != 0 && start <= end) --end;   (end >= 0 here)
TrimEnd(str, start, end) ==
    IF start <= end /\ isspace(At(str, end))
    THEN TrimEnd(str, start, end - 1)
    ELSE end

\* For an empty str, end = size() - 1 wraps to SIZE_MAX and the second loop
\* reads str[SIZE_MAX], outside the string.  Whatever bytes it finds there,
\* start <= end holds and substr(0, end + 1) of the empty string is empty,
\* so every outcome of the read returns the empty string.
TrimReadsOutOfRange(str) == Len(str) = 0

trim(str) ==
    IF Len(str) = 0 THEN <<>>
    ELSE LET start == TrimStart(str, 0, Len(str) - 1)
             end == TrimEnd(str, start, Len(str) - 1)
         IN  IF start <= end THEN Substr(str, start, end - start + 1) ELSE <<>>

(***************************************************************************)
(* The option map: std::unordered_map<std::string, std::string>            *)
(***************************************************************************)
EmptyMap == << >>

\* (*opts_map)[key] = value, without overwriting a key already present
MapPutKeepFirst(m, key, value) ==
    IF key \in DOMAIN m THEN m
    ELSE [k \in DOMAIN m \cup {key} |-> IF k = key THEN value ELSE m[k]]

\* (*opts_map)[key] = value
MapPut(m, key, value) ==
    [k \in DOMAIN m \cup {key} |-> IF k = key THEN value ELSE m[k]]

(***************************************************************************)
(* StringToMap                                                             *)
(***************************************************************************)
\* No whitespace skipped
SkipSpaceNone(s, p) == p

RECURSIVE SkipSpace(_, _)
\* while (pos < opts.size() && isspace(opts[pos])) ++pos;
SkipSpace(s, p) ==
    IF p < Len(s) /\ isspace(At(s, p)) THEN SkipSpace(s, p + 1) ELSE p

RECURSIVE BraceScan(_, _, _)
\* The loop over brace_pos: the count and brace_pos it ends with.
BraceScan(s, brace_pos, count) ==
    IF brace_pos >= Len(s) THEN [count |-> count, brace_pos |-> brace_pos]
    ELSE IF At(s, brace_pos) = "{" THEN BraceScan(s, brace_pos + 1, count + 1)
    ELSE IF At(s, brace_pos) = "}"
         THEN IF count - 1 = 0
              THEN [count |-> 0, brace_pos |-> brace_pos]
              ELSE BraceScan(s, brace_pos + 1, count - 1)
    ELSE BraceScan(s, brace_pos + 1, count)

\* The scan stopping at the first '}', whatever the depth
BraceValueFirstClose(s, p) ==
    LET close == Find(s, "}", p + 1)
    IN  IF close = npos THEN [count |-> 1, brace_pos |-> Len(s)]
        ELSE [count |-> 0, brace_pos |-> close]

\* int count = 1; size_t brace_pos = pos + 1; while (...) {...}
BraceValue(s, p) == BraceScan(s, p + 1, 1)

\* One iteration of `while (pos < opts.size())`, from position p with map m:
\* the position and the map it leaves, whether it read outside a string,
\* and how it ends: "continue" (next iteration), "break", or "return" with
\* the Status returned.
LoopBody(s, p, m) ==
    LET eq_pos == Find(s, "=", p)
        rawkey == Substr(s, p, eq_pos - p)
        key == trim(rawkey)
        p1 == SkipSpace(s, eq_pos + 1)
    IN
    IF eq_pos = npos
    THEN [pos |-> p, map |-> m, oob |-> FALSE,
          end |-> "return", ret |-> InvalidArgument(Lit.msg_mismatched_pair)]
    ELSE IF key = <<>>
    THEN [pos |-> p, map |-> m, oob |-> TrimReadsOutOfRange(rawkey),
          end |-> "return", ret |-> InvalidArgument(Lit.msg_empty_key)]
    ELSE IF p1 >= Len(s)
    THEN [pos |-> p1, map |-> MapPut(m, key, <<>>), oob |-> FALSE, end |-> "break", ret |-> OK]
    ELSE IF At(s, p1) = "{"
    THEN LET sc == BraceValue(s, p1)
             raw == Substr(s, p1 + 1, sc.brace_pos - p1 - 1)
             p2 == SkipSpace(s, sc.brace_pos + 1)
         IN  IF sc.count = 0
             THEN IF p2 < Len(s) /\ At(s, p2) # ";"
                  THEN [pos |-> p2, map |-> MapPut(m, key, trim(raw)),
                        oob |-> TrimReadsOutOfRange(raw),
                        end |-> "return", ret |-> InvalidArgument(Lit.msg_unexpected_chars)]
                  ELSE [pos |-> p2 + 1, map |-> MapPut(m, key, trim(raw)),
                        oob |-> TrimReadsOutOfRange(raw), end |-> "continue", ret |-> OK]
             ELSE [pos |-> p1, map |-> m, oob |-> FALSE,
                   end |-> "return", ret |-> InvalidArgument(Lit.msg_mismatched_braces)]
    ELSE LET sc_pos == Find(s, ";", p1)
         IN  IF sc_pos = npos
             THEN [pos |-> p1, map |-> MapPut(m, key, trim(SubstrFrom(s, p1))),
                   oob |-> FALSE, end |-> "break", ret |-> OK]
             ELSE [pos |-> sc_pos + 1,
                   map |-> MapPut(m, key, trim(Substr(s, p1, sc_pos - p1))),
                   oob |-> TrimReadsOutOfRange(Substr(s, p1, sc_pos - p1)),
                   end |-> "continue", ret |-> OK]

RECURSIVE Loop(_, _, _, _)
\* The whole loop from position p: [status, map, oob].
Loop(s, p, m, o) ==
    IF ~(p < Len(s)) THEN [status |-> OK, map |-> m, oob |-> o]
    ELSE LET Step(r) ==
                 IF r.end = "continue" THEN Loop(s, r.pos, r.map, o \/ r.oob)
                 ELSE [status |-> r.ret, map |-> r.map, oob |-> o \/ r.oob]
         IN  Step(LoopBody(s, p, m))

\* Status StringToMap(opts_str, opts_map) on an empty *opts_map.
StringToMap(str) == Loop(trim(str), 0, EmptyMap, TrimReadsOutOfRange(str))

(***************************************************************************)
(* Numbers.  An unsigned 64-bit value (uint64_t, size_t, and uint32_t      *)
(* before it is narrowed) is a Word: seven limbs of 10 bits, least         *)
(* significant first, the last holding the top 4 bits.  An int is a TLA+   *)
(* integer in -2^31 .. 2^31 - 1.                                           *)
(***************************************************************************)
Word(n) == <<n % 1024, (n \div 1024) % 1024, n \div 1048576, 0, 0, 0, 0>>

\* 10 * w + d, and whether it exceeds 64 bits.
MulAdd10(w, d) ==
    LET t1 == w[1] * 10 + d
        t2 == w[2] * 10 + t1 \div 1024
        t3 == w[3] * 10 + t2 \div 1024
        t4 == w[4] * 10 + t3 \div 1024
        t5 == w[5] * 10 + t4 \div 1024
        t6 == w[6] * 10 + t5 \div 1024
        t7 == w[7] * 10 + t6 \div 1024
    IN  [ovf |-> t7 >= 16,
         w |-> <<t1 % 1024, t2 % 1024, t3 % 1024, t4 % 1024, t5 % 1024,
                 t6 % 1024, t7 % 16>>]

\* -w as an unsigned 64-bit value: 2^64 - w, 0 for 0.
Negate(w) ==
    LET c1 == 1024 - w[1]
        c2 == 1023 - w[2] + c1 \div 1024
        c3 == 1023 - w[3] + c2 \div 1024
        c4 == 1023 - w[4] + c3 \div 1024
        c5 == 1023 - w[5] + c4 \div 1024
        c6 == 1023 - w[6] + c5 \div 1024
        c7 == 15 - w[7] + c6 \div 1024
    IN  <<c1 % 1024, c2 % 1024, c3 % 1024, c4 % 1024, c5 % 1024, c6 % 1024,
          c7 % 16>>

\* num <<= 10 * k on a uint64_t: the bits shifted past bit 63 are lost.
ShiftLeft(w, k) ==
    [i \in 1..7 |-> IF i <= k THEN 0
                    ELSE IF i = 7 THEN w[i - k] % 16 ELSE w[i - k]]

\* (num >> 32LL) == 0
FitsUint32(w) == w[4] < 4 /\ w[5] = 0 /\ w[6] = 0 /\ w[7] = 0

\* num <<= bits on an int, bits in {10, 20, 30}.  A shift that overflows int
\* is undefined; the two's complement result every supported build
\* produces is modelled.
ShiftLeftInt(num, bits) ==
    LET half == IF bits = 10 THEN 2097152 ELSE IF bits = 20 THEN 2048 ELSE 2
        scale == IF bits = 10 THEN 1024 ELSE IF bits = 20 THEN 1048576
                 ELSE 1073741824
        low == num % (2 * half)
    IN  IF low < half THEN low * scale ELSE (low - 2 * half) * scale

DigitChars == <<"0", "1", "2", "3", "4", "5", "6", "7", "8", "9">>

isdigit(c) == \E i \in 1..10 : DigitChars[i] = c

DigitValue(c) == (CHOOSE i \in 1..10 : DigitChars[i] = c) - 1

(***************************************************************************)
(* A coercer returns a value or throws std::exception with what().         *)
(***************************************************************************)
Value(v) == [thrown |-> FALSE, val |-> v, what |-> <<>>]
Throw(what) == [thrown |-> TRUE, val |-> <<>>, what |-> what]

\* Where the numeral of std::stoull / std::stoi / std::stod starts: after
\* leading whitespace and an optional sign.
NumeralStart(s) ==
    LET p == SkipSpace(s, 0)
    IN  [neg |-> At(s, p) = "-",
         pos |-> IF At(s, p) \in {"+", "-"} THEN p + 1 ELSE p]

RECURSIVE ScanUnsigned(_, _, _, _)
\* The digits from p on: the value, whether it overflowed, where they end.
ScanUnsigned(s, p, w, ovf) ==
    IF ~isdigit(At(s, p)) THEN [w |-> w, ovf |-> ovf, endchar |-> p]
    ELSE LET r == MulAdd10(w, DigitValue(At(s, p)))
         IN  ScanUnsigned(s, p + 1, r.w, ovf \/ r.ovf)

\* std::stoull(value.c_str(), &endchar)
stoull(s) ==
    LET Convert(st, r) ==
            IF r.endchar = st.pos THEN Throw(Lit.stoull)
            ELSE IF r.ovf THEN Throw(Lit.stoull)
            ELSE [thrown |-> FALSE, what |-> <<>>, endchar |-> r.endchar,
                  val |-> IF st.neg THEN Negate(r.w) ELSE r.w]
        Digits(st) == Convert(st, ScanUnsigned(s, st.pos, Word(0), FALSE))
    IN  Digits(NumeralStart(s))

RECURSIVE ScanSigned(_, _, _, _)
\* The digits from p on, accumulated as a number <= 0 (so that -2^31 fits).
ScanSigned(s, p, acc, ovf) ==
    IF ~isdigit(At(s, p)) THEN [acc |-> acc, ovf |-> ovf, endchar |-> p]
    ELSE LET d == DigitValue(At(s, p))
             over == ovf \/ acc < -214748364 \/ (acc = -214748364 /\ d > 8)
         IN  ScanSigned(s, p + 1, IF over THEN 0 ELSE acc * 10 - d, over)

\* std::stoi(value.c_str(), &endchar)
stoi(s) ==
    LET Convert(st, r) ==
            IF r.endchar = st.pos THEN Throw(Lit.stoi)
            ELSE IF r.ovf \/ (~st.neg /\ r.acc = -2147483647 - 1) THEN Throw(Lit.stoi)
            ELSE [thrown |-> FALSE, what |-> <<>>, endchar |-> r.endchar,
                  val |-> IF st.neg THEN r.acc ELSE 0 - r.acc]
        Digits(st) == Convert(st, ScanSigned(s, st.pos, 0, FALSE))
    IN  Digits(NumeralStart(s))

RECURSIVE ScanDigits(_, _)
\* Where the digits from p on end.
ScanDigits(s, p) == IF isdigit(At(s, p)) THEN ScanDigits(s, p + 1) ELSE p

RECURSIVE StripZeros(_)
\* A digit string without its leading zeros.
StripZeros(d) == IF d # <<>> /\ d[1] = "0" THEN StripZeros(Tail(d)) ELSE d

RECURSIVE StripEndZeros(_)
\* A digit string without its trailing zeros.
StripEndZeros(d) ==
    IF d # <<>> /\ d[Len(d)] = "0" THEN StripEndZeros(SubSeq(d, 1, Len(d) - 1))
    ELSE d

\* std::stod(value) for decimal numerals without an exponent: the value is
\* kept as its sign, integer digits and fraction digits.
stod(s) ==
    LET st == NumeralStart(s)
        e1 == ScanDigits(s, st.pos)
        e2 == IF At(s, e1) = "." THEN ScanDigits(s, e1 + 1) ELSE e1
        int == StripZeros(Substr(s, st.pos, e1 - st.pos))
        frac == IF e2 > e1 THEN StripEndZeros(Substr(s, e1 + 1, e2 - e1 - 1)) ELSE <<>>
    IN  IF e1 = st.pos /\ e2 <= e1 + 1 THEN Throw(Lit.stod)
        ELSE Value([neg |-> st.neg /\ (int # <<>> \/ frac # <<>>),
                    int |-> int, frac |-> frac])

(***************************************************************************)
(* The value coercers                                                      *)
(***************************************************************************)
ParseCompressionType(type) ==
    IF type = Lit.kNoCompression THEN Value("kNoCompression")
    ELSE IF type = Lit.kSnappyCompression THEN Value("kSnappyCompression")
    ELSE IF type = Lit.kZlibCompression THEN Value("kZlibCompression")
    ELSE IF type = Lit.kBZip2Compression THEN Value("kBZip2Compression")
    ELSE IF type = Lit.kLZ4Compression THEN Value("kLZ4Compression")
    ELSE IF type = Lit.kLZ4HCCompression THEN Value("kLZ4HCCompression")
    ELSE Throw(Lit.msg_unknown_compression \o type)

ParseBlockBasedTableIndexType(type) ==
    IF type = Lit.kBinarySearch THEN Value("kBinarySearch")
    ELSE IF type = Lit.kHashSearch THEN Value("kHashSearch")
    ELSE Throw(Lit.msg_unknown_index \o type)

ParseBlockBasedTableChecksumType(type) ==
    IF type = Lit.kNoChecksum THEN Value("kNoChecksum")
    ELSE IF type = Lit.kCRC32c THEN Value("kCRC32c")
    ELSE IF type = Lit.kxxHash THEN Value("kxxHash")
    ELSE Throw(Lit.msg_unknown_checksum \o type)

ParseBoolean(type, value) ==
    IF value = Lit.true \/ value = Lit.one THEN Value(TRUE)
    ELSE IF value = Lit.false \/ value = Lit.zero THEN Value(FALSE)
    ELSE Throw(type)

\* The suffix character's shift, in limbs of 10 bits: k, m, g, t.
ParseUint64(value) ==
    LET Suffix(r) ==
            LET c == At(value, r.endchar)
            IN  IF r.thrown THEN r
                ELSE IF r.endchar < Len(value)
                THEN Value(IF c \in {"k", "K"} THEN ShiftLeft(r.val, 1)
                           ELSE IF c \in {"m", "M"} THEN ShiftLeft(r.val, 2)
                           ELSE IF c \in {"g", "G"} THEN ShiftLeft(r.val, 3)
                           ELSE IF c \in {"t", "T"} THEN ShiftLeft(r.val, 4)
                           ELSE r.val)
                ELSE Value(r.val)
    IN  Suffix(stoull(value))

\* static_cast<size_t>: size_t is 64 bits wide.
ParseSizeT(value) == ParseUint64(value)

ParseUint32(value) ==
    LET Narrow(num) ==
            IF num.thrown THEN num
            ELSE IF FitsUint32(num.val) THEN Value(num.val)
            ELSE Throw(value)
    IN  Narrow(ParseUint64(value))

ParseInt(value) ==
    LET Suffix(r) ==
            LET c == At(value, r.endchar)
            IN  IF r.thrown THEN r
                ELSE IF r.endchar < Len(value)
                THEN Value(IF c \in {"k", "K"} THEN ShiftLeftInt(r.val, 10)
                           ELSE IF c \in {"m", "M"} THEN ShiftLeftInt(r.val, 20)
                           ELSE IF c \in {"g", "G"} THEN ShiftLeftInt(r.val, 30)
                           ELSE r.val)
                ELSE Value(r.val)
    IN  Suffix(stoi(value))

ParseDouble(value) == stod(value)

ParseCompactionStyle(type) ==
    IF type = Lit.kCompactionStyleLevel THEN Value("kCompactionStyleLevel")
    ELSE IF type = Lit.kCompactionStyleUniversal THEN Value("kCompactionStyleUniversal")
    ELSE IF type = Lit.kCompactionStyleFIFO THEN Value("kCompactionStyleFIFO")
    ELSE Throw(Lit.msg_unknown_style \o type)

(***************************************************************************)
(* What processing one option yields: whether a registry matched the name, *)
(* the exception thrown (what), the Status returned from inside the loop   *)
(* body, and the configuration as written so far.                          *)
(***************************************************************************)
Stored(o) ==
    [matched |-> TRUE, thrown |-> FALSE, what |-> <<>>, returned |-> FALSE,
     ret |-> OK, opts |-> o]
Thrown(o, what) ==
    [matched |-> TRUE, thrown |-> TRUE, what |-> what, returned |-> FALSE,
     ret |-> OK, opts |-> o]
\* A return from inside the loop body that is dropped: the loop goes on
ReturnedIgnored(o, st) ==
    [matched |-> TRUE, thrown |-> FALSE, what |-> <<>>, returned |-> FALSE,
     ret |-> OK, opts |-> o]
Returned(o, st) ==
    [matched |-> TRUE, thrown |-> FALSE, what |-> <<>>, returned |-> TRUE,
     ret |-> st, opts |-> o]
NoMatch(o) ==
    [matched |-> FALSE, thrown |-> FALSE, what |-> <<>>, returned |-> FALSE,
     ret |-> OK, opts |-> o]

\* new_options->f = Parse...(value): the parse throws, or the field is set.
Set(o, f, r) ==
    IF r.thrown THEN Thrown(o, r.what) ELSE Stored([o EXCEPT ![f] = r.val])

\* new_options->f.clear() and the push_back loop: the elements pushed before
\* a throw stay in the vector.
SetPartial(o, f, r) ==
    IF r.thrown THEN Thrown([o EXCEPT ![f] = r.val], r.what)
    ELSE Stored([o EXCEPT ![f] = r.val])

RECURSIVE ParseIntList(_, _, _)
\* The loop of max_bytes_for_level_multiplier_additional from `start`.
ParseIntList(value, start, acc) ==
    LET end == Find(value, ":", start)
        r == ParseInt(IF end = npos THEN SubstrFrom(value, start)
                      ELSE Substr(value, start, end - start))
    IN  IF r.thrown THEN [thrown |-> TRUE, val |-> acc, what |-> r.what]
        ELSE IF end = npos THEN Value(Append(acc, r.val))
        ELSE ParseIntList(value, end + 1, Append(acc, r.val))

RECURSIVE ParseCompressionList(_, _, _)
\* The loop of compression_per_level from `start`.
ParseCompressionList(value, start, acc) ==
    LET end == Find(value, ":", start)
        r == ParseCompressionType(IF end = npos THEN SubstrFrom(value, start)
                                  ELSE Substr(value, start, end - start))
    IN  IF r.thrown THEN [thrown |-> TRUE, val |-> acc, what |-> r.what]
        ELSE IF end = npos THEN Value(Append(acc, r.val))
        ELSE ParseCompressionList(value, end + 1, Append(acc, r.val))

\* Objects held by pointer: the null pointer, and what the factories build.
nullptr == <<"nullptr">>
NewLRUCache(capacity) ==
    IF capacity.thrown THEN capacity ELSE Value(<<"LRUCache", capacity.val>>)
NewBloomFilterPolicy(bits_per_key, use_block_based_builder) ==
    <<"BloomFilterPolicy", bits_per_key, use_block_based_builder>>
NewFixedPrefixTransform(prefix_length) == <<"FixedPrefixTransform", prefix_length>>
NewBlockBasedTableFactory(table_opt) == <<"BlockBasedTableFactory", table_opt>>

(***************************************************************************)
(* The registries                                                          *)
(***************************************************************************)
ParseMemtableOptions(name, value, o) ==
    IF name = Lit.write_buffer_size THEN
        Set(o, "write_buffer_size", ParseSizeT(value))
    ELSE IF name = Lit.arena_block_size THEN
        Set(o, "arena_block_size", ParseSizeT(value))
    ELSE IF name = Lit.memtable_prefix_bloom_bits THEN
        Set(o, "memtable_prefix_bloom_bits", ParseUint32(value))
    ELSE IF name = Lit.memtable_prefix_bloom_probes THEN
        Set(o, "memtable_prefix_bloom_probes", ParseUint32(value))
    ELSE IF name = Lit.memtable_prefix_bloom_huge_page_tlb_size THEN
        Set(o, "memtable_prefix_bloom_huge_page_tlb_size", ParseSizeT(value))
    ELSE IF name = Lit.max_successive_merges THEN
        Set(o, "max_successive_merges", ParseSizeT(value))
    ELSE IF name = Lit.filter_deletes THEN
        Set(o, "filter_deletes", ParseBoolean(name, value))
    ELSE IF name = Lit.max_write_buffer_number THEN
        Set(o, "max_write_buffer_number", ParseInt(value))
    ELSE IF name = Lit.inplace_update_num_locks THEN
        Set(o, "inplace_update_num_locks", ParseSizeT(value))
    ELSE NoMatch(o)

ParseCompactionOptions(name, value, o) ==
    IF name = Lit.disable_auto_compactions THEN
        Set(o, "disable_auto_compactions", ParseBoolean(name, value))
    ELSE IF name = Lit.soft_rate_limit THEN
        Set(o, "soft_rate_limit", ParseDouble(value))
    ELSE IF name = Lit.hard_rate_limit THEN
        Set(o, "hard_rate_limit", ParseDouble(value))
    ELSE IF name = Lit.level0_file_num_compaction_trigger THEN
        Set(o, "level0_file_num_compaction_trigger", ParseInt(value))
    ELSE IF name = Lit.level0_slowdown_writes_trigger THEN
        Set(o, "level0_slowdown_writes_trigger", ParseInt(value))
    ELSE IF name = Lit.level0_stop_writes_trigger THEN
        Set(o, "level0_stop_writes_trigger", ParseInt(value))
    ELSE IF name = Lit.max_grandparent_overlap_factor THEN
        Set(o, "max_grandparent_overlap_factor", ParseInt(value))
    ELSE IF name = Lit.expanded_compaction_factor THEN
        Set(o, "expanded_compaction_factor", ParseInt(value))
    ELSE IF name = Lit.source_compaction_factor THEN
        Set(o, "source_compaction_factor", ParseInt(value))
    ELSE IF name = Lit.target_file_size_base THEN
        Set(o, "target_file_size_base", ParseInt(value))
    ELSE IF name = Lit.target_file_size_multiplier THEN
        Set(o, "target_file_size_multiplier", ParseInt(value))
    ELSE IF name = Lit.max_bytes_for_level_base THEN
        Set(o, "max_bytes_for_level_base", ParseUint64(value))
    ELSE IF name = Lit.max_bytes_for_level_multiplier THEN
        Set(o, "max_bytes_for_level_multiplier", ParseInt(value))
    ELSE IF name = Lit.max_bytes_for_level_multiplier_additional THEN
        SetPartial(o, "max_bytes_for_level_multiplier_additional", ParseIntList(value, 0, <<>>))
    ELSE IF name = Lit.max_mem_compaction_level THEN
        Set(o, "max_mem_compaction_level", ParseInt(value))
    ELSE IF name = Lit.verify_checksums_in_compaction THEN
        Set(o, "verify_checksums_in_compaction", ParseBoolean(name, value))
    ELSE NoMatch(o)

ParseMiscOptions(name, value, o) ==
    IF name = Lit.max_sequential_skip_in_iterations THEN
        Set(o, "max_sequential_skip_in_iterations", ParseUint64(value))
    ELSE NoMatch(o)

\* filter_policy: bloomfilter:int:bool
FilterPolicyOption(value, o) ==
    LET kName == Lit.bloomfilter_
        p == Find(value, ":", Len(kName))
        bits_per_key == ParseInt(trim(Substr(value, Len(kName), p - Len(kName))))
        use_block_based_builder ==
            ParseBoolean(Lit.use_block_based_builder, trim(SubstrFrom(value, p + 1)))
    IN  IF ~StartsWith(value, kName)
        THEN Returned(o, InvalidArgument(Lit.msg_invalid_filter_name))
        ELSE IF p = npos
        THEN Returned(o, InvalidArgument(Lit.msg_missing_bits_per_key))
        ELSE IF bits_per_key.thrown THEN Thrown(o, bits_per_key.what)
        ELSE IF use_block_based_builder.thrown
        THEN Thrown(o, use_block_based_builder.what)
        ELSE Stored([o EXCEPT !["filter_policy"] =
                 NewBloomFilterPolicy(bits_per_key.val, use_block_based_builder.val)])

\* The if-chain of GetBlockBasedTableOptionsFromMap on o.first.
BlockBasedTableOption(name, value, o) ==
    IF name = Lit.cache_index_and_filter_blocks THEN
        Set(o, "cache_index_and_filter_blocks", ParseBoolean(name, value))
    ELSE IF name = Lit.index_type THEN
        Set(o, "index_type", ParseBlockBasedTableIndexType(value))
    ELSE IF name = Lit.hash_index_allow_collision THEN
        Set(o, "hash_index_allow_collision", ParseBoolean(name, value))
    ELSE IF name = Lit.checksum THEN
        Set(o, "checksum", ParseBlockBasedTableChecksumType(value))
    ELSE IF name = Lit.no_block_cache THEN
        Set(o, "no_block_cache", ParseBoolean(name, value))
    ELSE IF name = Lit.block_cache THEN
        Set(o, "block_cache", NewLRUCache(ParseSizeT(value)))
    ELSE IF name = Lit.block_cache_compressed THEN
        Set(o, "block_cache_compressed", NewLRUCache(ParseSizeT(value)))
    ELSE IF name = Lit.block_size THEN
        Set(o, "block_size", ParseSizeT(value))
    ELSE IF name = Lit.block_size_deviation THEN
        Set(o, "block_size_deviation", ParseInt(value))
    ELSE IF name = Lit.block_restart_interval THEN
        Set(o, "block_restart_interval", ParseInt(value))
    ELSE IF name = Lit.filter_policy THEN
        FilterPolicyOption(value, o)
    ELSE IF name = Lit.whole_key_filtering THEN
        Set(o, "whole_key_filtering", ParseBoolean(name, value))
    ELSE Returned(o, InvalidArgument(Lit.msg_unrecognized \o name))

\* catch (std::exception& e): the Status the loop body ends with (OK: the
\* loop goes on) and the configuration it leaves.
Caught(name, r) ==
    [status |-> IF r.thrown
                THEN InvalidArgument(Lit.msg_error_parsing \o name \o Lit.colon
                                     \o r.what)
                ELSE IF r.returned THEN r.ret ELSE OK,
     opts |-> r.opts]

\* The body of the loop of GetBlockBasedTableOptionsFromMap for one option.
TableOptionsBody(name, value, o) == Caught(name, BlockBasedTableOption(name, value, o))

RECURSIVE TableOptionsLoop(_, _, _)
\* for (const auto& o : opts_map), visiting the keys in the order ord.
TableOptionsLoop(o, map, ord) ==
    IF ord = <<>> THEN [status |-> OK, opts |-> o]
    ELSE LET Step(r) == IF r.status.code # "OK" THEN r
                        ELSE TableOptionsLoop(r.opts, map, Tail(ord))
         IN  Step(TableOptionsBody(ord[1], map[ord[1]], o))

\* The orders in which an unordered_map with the keys S can be visited.
Orders(S) ==
    {f \in [1..Cardinality(S) -> S] : \A i, j \in 1..Cardinality(S) : f[i] = f[j] => i = j}

GetBlockBasedTableOptionsFromMap(table_options, map, ord) ==
    TableOptionsLoop(table_options, map, ord)

GetBlockBasedTableOptionsFromString(table_options, str, ord) ==
    LET Apply(s) ==
            IF s.status.code # "OK" THEN [status |-> s.status, opts |-> table_options]
            ELSE GetBlockBasedTableOptionsFromMap(table_options, s.map, ord)
    IN  Apply(StringToMap(str))

\* BlockBasedTableOptions(): the default table options.  The values are those
\* the struct declares for its members (include/rocksdb/table.h); no property
\* below depends on what they are.
BlockBasedTableOptions ==
    [cache_index_and_filter_blocks |-> FALSE,
     index_type |-> "kBinarySearch",
     hash_index_allow_collision |-> TRUE,
     checksum |-> "kCRC32c",
     no_block_cache |-> FALSE,
     block_cache |-> nullptr,
     block_cache_compressed |-> nullptr,
     block_size |-> Word(4096),
     block_size_deviation |-> 10,
     block_restart_interval |-> 16,
     filter_policy |-> nullptr,
     whole_key_filtering |-> TRUE]

\* The nested call seeded from the table options of the base's factory
TableFactoryOptionFromBase(value, o, ord) ==
    LET Install(table_opt) ==
            IF table_opt.status.code # "OK" THEN Returned(o, table_opt.status)
            ELSE Stored([o EXCEPT !["table_factory"] =
                     NewBlockBasedTableFactory(table_opt.opts)])
    IN  Install(GetBlockBasedTableOptionsFromString(o["table_factory"][2], value, ord))

\* block_based_table_factory: nested options
TableFactoryOption(value, o, ord) ==
    LET Install(table_opt) ==
            IF table_opt.status.code # "OK" THEN Returned(o, table_opt.status)
            ELSE Stored([o EXCEPT !["table_factory"] =
                     NewBlockBasedTableFactory(table_opt.opts)])
    IN  Install(GetBlockBasedTableOptionsFromString(BlockBasedTableOptions, value, ord))

\* compression_opts: window_bits:level:strategy
CompressionOptsOption(name, value, o) ==
    LET end1 == Find(value, ":", 0)
        window_bits == ParseInt(Substr(value, 0, end1))
        o1 == [o EXCEPT !["compression_opts.window_bits"] = window_bits.val]
        start2 == end1 + 1
        end2 == Find(value, ":", start2)
        level == ParseInt(Substr(value, start2, end2 - start2))
        o2 == [o1 EXCEPT !["compression_opts.level"] = level.val]
        start3 == end2 + 1
        strategy == ParseInt(Substr(value, start3, Len(value) - start3))
        invalid == InvalidArgument(Lit.msg_invalid_config_value \o name)
    IN  IF end1 = npos THEN Returned(o, invalid)
        ELSE IF window_bits.thrown THEN Thrown(o, window_bits.what)
        ELSE IF end2 = npos THEN Returned(o1, invalid)
        ELSE IF level.thrown THEN Thrown(o1, level.what)
        ELSE IF start3 >= Len(value) THEN Returned(o2, invalid)
        ELSE IF strategy.thrown THEN Thrown(o2, strategy.what)
        ELSE Stored([o2 EXCEPT !["compression_opts.strategy"] = strategy.val])

\* prefix_extractor: fixed:int
PrefixExtractorOption(value, o) ==
    LET kName == Lit.fixed_
        prefix_length == ParseInt(trim(SubstrFrom(value, Len(kName))))
    IN  IF ~StartsWith(value, kName)
        THEN Returned(o, InvalidArgument(Lit.msg_invalid_prefix_extractor \o value))
        ELSE IF prefix_length.thrown THEN Thrown(o, prefix_length.what)
        ELSE Stored([o EXCEPT !["prefix_extractor"] =
                 NewFixedPrefixTransform(prefix_length.val)])

\* The if-chain of GetColumnFamilyOptionsFromMap after the shared registries.
ColumnFamilyOption(name, value, o, ord) ==
    IF name = Lit.block_based_table_factory THEN
        TableFactoryOption(value, o, ord)
    ELSE IF name = Lit.min_write_buffer_number_to_merge THEN
        Set(o, "min_write_buffer_number_to_merge", ParseInt(value))
    ELSE IF name = Lit.compression THEN
        Set(o, "compression", ParseCompressionType(value))
    ELSE IF name = Lit.compression_per_level THEN
        SetPartial(o, "compression_per_level", ParseCompressionList(value, 0, <<>>))
    ELSE IF name = Lit.compression_opts THEN
        CompressionOptsOption(name, value, o)
    ELSE IF name = Lit.num_levels THEN
        Set(o, "num_levels", ParseInt(value))
    ELSE IF name = Lit.purge_redundant_kvs_while_flush THEN
        Set(o, "purge_redundant_kvs_while_flush", ParseBoolean(name, value))
    ELSE IF name = Lit.compaction_style THEN
        Set(o, "compaction_style", ParseCompactionStyle(value))
    ELSE IF name = Lit.compaction_options_universal THEN
        Returned(o, NotSupported(Lit.msg_not_supported \o name))
    ELSE IF name = Lit.compaction_options_fifo THEN
        Set(o, "compaction_options_fifo.max_table_files_size", ParseUint64(value))
    ELSE IF name = Lit.bloom_locality THEN
        Set(o, "bloom_locality", ParseUint32(value))
    ELSE IF name = Lit.min_partial_merge_operands THEN
        Set(o, "min_partial_merge_operands", ParseUint32(value))
    ELSE IF name = Lit.inplace_update_support THEN
        Set(o, "inplace_update_support", ParseBoolean(name, value))
    ELSE IF name = Lit.prefix_extractor THEN
        PrefixExtractorOption(value, o)
    ELSE Returned(o, InvalidArgument(Lit.msg_unrecognized \o name))

\* The if-chain of GetDBOptionsFromMap on o.first.
DBOption(name, value, o) ==
    IF name = Lit.create_if_missing THEN
        Set(o, "create_if_missing", ParseBoolean(name, value))
    ELSE IF name = Lit.create_missing_column_families THEN
        Set(o, "create_missing_column_families", ParseBoolean(name, value))
    ELSE IF name = Lit.error_if_exists THEN
        Set(o, "error_if_exists", ParseBoolean(name, value))
    ELSE IF name = Lit.paranoid_checks THEN
        Set(o, "paranoid_checks", ParseBoolean(name, value))
    ELSE IF name = Lit.max_open_files THEN
        Set(o, "max_open_files", ParseInt(value))
    ELSE IF name = Lit.max_total_wal_size THEN
        Set(o, "max_total_wal_size", ParseUint64(value))
    ELSE IF name = Lit.disable_data_sync THEN
        Set(o, "disableDataSync", ParseBoolean(name, value))
    ELSE IF name = Lit.use_fsync THEN
        Set(o, "use_fsync", ParseBoolean(name, value))
    ELSE IF name = Lit.db_paths THEN
        Returned(o, NotSupported(Lit.msg_not_supported \o name))
    ELSE IF name = Lit.db_log_dir THEN
        Set(o, "db_log_dir", Value(value))
    ELSE IF name = Lit.wal_dir THEN
        Set(o, "wal_dir", Value(value))
    ELSE IF name = Lit.delete_obsolete_files_period_micros THEN
        Set(o, "delete_obsolete_files_period_micros", ParseUint64(value))
    ELSE IF name = Lit.max_background_compactions THEN
        Set(o, "max_background_compactions", ParseInt(value))
    ELSE IF name = Lit.max_background_flushes THEN
        Set(o, "max_background_flushes", ParseInt(value))
    ELSE IF name = Lit.max_log_file_size THEN
        Set(o, "max_log_file_size", ParseSizeT(value))
    ELSE IF name = Lit.log_file_time_to_roll THEN
        Set(o, "log_file_time_to_roll", ParseSizeT(value))
    ELSE IF name = Lit.keep_log_file_num THEN
        Set(o, "keep_log_file_num", ParseSizeT(value))
    ELSE IF name = Lit.max_manifest_file_size THEN
        Set(o, "max_manifest_file_size", ParseUint64(value))
    ELSE IF name = Lit.table_cache_numshardbits THEN
        Set(o, "table_cache_numshardbits", ParseInt(value))
    ELSE IF name = Lit.table_cache_remove_scan_count_limit THEN
        Set(o, "table_cache_remove_scan_count_limit", ParseInt(value))
    ELSE IF name = Lit.WAL_ttl_seconds THEN
        Set(o, "WAL_ttl_seconds", ParseUint64(value))
    ELSE IF name = Lit.WAL_size_limit_MB THEN
        Set(o, "WAL_size_limit_MB", ParseUint64(value))
    ELSE IF name = Lit.manifest_preallocation_size THEN
        Set(o, "manifest_preallocation_size", ParseSizeT(value))
    ELSE IF name = Lit.allow_os_buffer THEN
        Set(o, "allow_os_buffer", ParseBoolean(name, value))
    ELSE IF name = Lit.allow_mmap_reads THEN
        Set(o, "allow_mmap_reads", ParseBoolean(name, value))
    ELSE IF name = Lit.allow_mmap_writes THEN
        Set(o, "allow_mmap_writes", ParseBoolean(name, value))
    ELSE IF name = Lit.is_fd_close_on_exec THEN
        Set(o, "is_fd_close_on_exec", ParseBoolean(name, value))
    ELSE IF name = Lit.skip_log_error_on_recovery THEN
        Set(o, "skip_log_error_on_recovery", ParseBoolean(name, value))
    ELSE IF name = Lit.stats_dump_period_sec THEN
        Set(o, "stats_dump_period_sec", ParseUint32(value))
    ELSE IF name = Lit.advise_random_on_open THEN
        Set(o, "advise_random_on_open", ParseBoolean(name, value))
    ELSE IF name = Lit.db_write_buffer_size THEN
        Set(o, "db_write_buffer_size", ParseUint64(value))
    ELSE IF name = Lit.use_adaptive_mutex THEN
        Set(o, "use_adaptive_mutex", ParseBoolean(name, value))
    ELSE IF name = Lit.bytes_per_sync THEN
        Set(o, "bytes_per_sync", ParseUint64(value))
    ELSE Returned(o, InvalidArgument(Lit.msg_unrecognized \o name))

\* The body of the loop of GetColumnFamilyOptionsFromMap for one option; ord
\* is the order in which a nested table option map is visited.
ColumnFamilyOptionsBody(name, value, o, ord) ==
    LET Chain(mem, comp, misc) ==
            IF mem.matched THEN mem
            ELSE IF comp.matched THEN comp
            ELSE IF misc.matched THEN misc
            ELSE ColumnFamilyOption(name, value, o, ord)
    IN  Caught(name, Chain(ParseMemtableOptions(name, value, o),
                           ParseCompactionOptions(name, value, o),
                           ParseMiscOptions(name, value, o)))

\* The body of the loop of GetDBOptionsFromMap for one option.
DBOptionsBody(name, value, o) == Caught(name, DBOption(name, value, o))

\* The body of the loop of GetMutableOptionsFromStrings for one option.
MutableOptionsBody(name, value, o) ==
    LET Chain(mem, comp, misc) ==
            IF mem.matched THEN mem
            ELSE IF comp.matched THEN comp
            ELSE IF misc.matched THEN misc
            ELSE Returned(o, InvalidArgument(Lit.msg_unsupported_dynamic \o name))
    IN  Caught(name, Chain(ParseMemtableOptions(name, value, o),
                           ParseCompactionOptions(name, value, o),
                           ParseMiscOptions(name, value, o)))

(***************************************************************************)
(* The keys of each registry, the fields they write, and the fields by     *)
(* type.                                                                   *)
(***************************************************************************)
MemtableKeys == {
    "write_buffer_size", "arena_block_size", "memtable_prefix_bloom_bits",
    "memtable_prefix_bloom_probes", "memtable_prefix_bloom_huge_page_tlb_size", "max_successive_merges",
    "filter_deletes", "max_write_buffer_number", "inplace_update_num_locks"}

CompactionKeys == {
    "disable_auto_compactions", "soft_rate_limit", "hard_rate_limit",
    "level0_file_num_compaction_trigger", "level0_slowdown_writes_trigger", "level0_stop_writes_trigger",
    "max_grandparent_overlap_factor", "expanded_compaction_factor", "source_compaction_factor",
    "target_file_size_base", "target_file_size_multiplier", "max_bytes_for_level_base",
    "max_bytes_for_level_multiplier", "max_bytes_for_level_multiplier_additional", "max_mem_compaction_level",
    "verify_checksums_in_compaction"}

MiscKeys == {
    "max_sequential_skip_in_iterations"}

TableKeys == {
    "cache_index_and_filter_blocks", "index_type", "hash_index_allow_collision",
    "checksum", "no_block_cache", "block_cache",
    "block_cache_compressed", "block_size", "block_size_deviation",
    "block_restart_interval", "filter_policy", "whole_key_filtering"}

ColumnFamilyKeys == {
    "block_based_table_factory", "min_write_buffer_number_to_merge", "compression",
    "compression_per_level", "compression_opts", "num_levels",
    "purge_redundant_kvs_while_flush", "compaction_style", "compaction_options_universal",
    "compaction_options_fifo", "bloom_locality", "min_partial_merge_operands",
    "inplace_update_support", "prefix_extractor"}

DBKeys == {
    "create_if_missing", "create_missing_column_families", "error_if_exists",
    "paranoid_checks", "max_open_files", "max_total_wal_size",
    "disable_data_sync", "use_fsync", "db_paths",
    "db_log_dir", "wal_dir", "delete_obsolete_files_period_micros",
    "max_background_compactions", "max_background_flushes", "max_log_file_size",
    "log_file_time_to_roll", "keep_log_file_num", "max_manifest_file_size",
    "table_cache_numshardbits", "table_cache_remove_scan_count_limit", "WAL_ttl_seconds",
    "WAL_size_limit_MB", "manifest_preallocation_size", "allow_os_buffer",
    "allow_mmap_reads", "allow_mmap_writes", "is_fd_close_on_exec",
    "skip_log_error_on_recovery", "stats_dump_period_sec", "advise_random_on_open",
    "db_write_buffer_size", "use_adaptive_mutex", "bytes_per_sync"}

MemtableFields == {
    "write_buffer_size", "arena_block_size", "memtable_prefix_bloom_bits",
    "memtable_prefix_bloom_probes", "memtable_prefix_bloom_huge_page_tlb_size", "max_successive_merges",
    "filter_deletes", "max_write_buffer_number", "inplace_update_num_locks"}

CompactionFields == {
    "disable_auto_compactions", "soft_rate_limit", "hard_rate_limit",
    "level0_file_num_compaction_trigger", "level0_slowdown_writes_trigger", "level0_stop_writes_trigger",
    "max_grandparent_overlap_factor", "expanded_compaction_factor", "source_compaction_factor",
    "target_file_size_base", "target_file_size_multiplier", "max_bytes_for_level_base",
    "max_bytes_for_level_multiplier", "max_bytes_for_level_multiplier_additional", "max_mem_compaction_level",
    "verify_checksums_in_compaction"}

MiscFields == {
    "max_sequential_skip_in_iterations"}

TableFields == {
    "cache_index_and_filter_blocks", "index_type", "hash_index_allow_collision",
    "checksum", "no_block_cache", "block_cache",
    "block_cache_compressed", "block_size", "block_size_deviation",
    "block_restart_interval", "filter_policy", "whole_key_filtering"}

ColumnFamilyOwnFields == {
    "table_factory", "min_write_buffer_number_to_merge", "compression",
    "compression_per_level", "compression_opts.window_bits", "compression_opts.level",
    "compression_opts.strategy", "num_levels", "purge_redundant_kvs_while_flush",
    "compaction_style", "compaction_options_fifo.max_table_files_size", "bloom_locality",
    "min_partial_merge_operands", "inplace_update_support", "prefix_extractor"}

DBFields == {
    "create_if_missing", "create_missing_column_families", "error_if_exists",
    "paranoid_checks", "max_open_files", "max_total_wal_size",
    "disableDataSync", "use_fsync", "db_log_dir",
    "wal_dir", "delete_obsolete_files_period_micros", "max_background_compactions",
    "max_background_flushes", "max_log_file_size", "log_file_time_to_roll",
    "keep_log_file_num", "max_manifest_file_size", "table_cache_numshardbits",
    "table_cache_remove_scan_count_limit", "WAL_ttl_seconds", "WAL_size_limit_MB",
    "manifest_preallocation_size", "allow_os_buffer", "allow_mmap_reads",
    "allow_mmap_writes", "is_fd_close_on_exec", "skip_log_error_on_recovery",
    "stats_dump_period_sec", "advise_random_on_open", "db_write_buffer_size",
    "use_adaptive_mutex", "bytes_per_sync"}

BoolFields == {
    "filter_deletes", "disable_auto_compactions", "verify_checksums_in_compaction",
    "cache_index_and_filter_blocks", "hash_index_allow_collision", "no_block_cache",
    "whole_key_filtering", "purge_redundant_kvs_while_flush", "inplace_update_support",
    "create_if_missing", "create_missing_column_families", "error_if_exists",
    "paranoid_checks", "disableDataSync", "use_fsync",
    "allow_os_buffer", "allow_mmap_reads", "allow_mmap_writes",
    "is_fd_close_on_exec", "skip_log_error_on_recovery", "advise_random_on_open",
    "use_adaptive_mutex"}

IntFields == {
    "max_write_buffer_number", "level0_file_num_compaction_trigger", "level0_slowdown_writes_trigger",
    "level0_stop_writes_trigger", "max_grandparent_overlap_factor", "expanded_compaction_factor",
    "source_compaction_factor", "target_file_size_base", "target_file_size_multiplier",
    "max_bytes_for_level_multiplier", "max_mem_compaction_level", "block_size_deviation",
    "block_restart_interval", "min_write_buffer_number_to_merge", "num_levels",
    "max_open_files", "max_background_compactions", "max_background_flushes",
    "table_cache_numshardbits", "table_cache_remove_scan_count_limit", "compression_opts.window_bits",
    "compression_opts.level", "compression_opts.strategy"}

WordFields == {
    "write_buffer_size", "arena_block_size", "memtable_prefix_bloom_bits",
    "memtable_prefix_bloom_probes", "memtable_prefix_bloom_huge_page_tlb_size", "max_successive_merges",
    "inplace_update_num_locks", "max_bytes_for_level_base", "max_sequential_skip_in_iterations",
    "block_size", "compaction_options_fifo.max_table_files_size", "bloom_locality",
    "min_partial_merge_operands", "max_total_wal_size", "delete_obsolete_files_period_micros",
    "max_log_file_size", "log_file_time_to_roll", "keep_log_file_num",
    "max_manifest_file_size", "WAL_ttl_seconds", "WAL_size_limit_MB",
    "manifest_preallocation_size", "stats_dump_period_sec", "db_write_buffer_size",
    "bytes_per_sync"}

DoubleFields == {
    "soft_rate_limit", "hard_rate_limit"}

StringFields == {
    "db_log_dir", "wal_dir"}

\* The values of the checked inputs, by their names in Lit.
ValueNames == {
    "v_empty", "v_bogus", "v_4k", "v_2m", "v_1g",
    "v_5g", "v_16777216t", "v_99999999999", "v_minus1", "v_1_5",
    "v_8192", "v_10", "v_comp_list", "v_comp_list_bad", "v_1_2_3",
    "v_1_2", "v_1_2_", "v_1_2_3_4", "v_bloom_10_true", "v_bloom_10",
    "v_bloom_10_true_1", "v_bloom_bad_tag", "v_bloom_empty_bits", "v_fixed_8", "v_fixed_8_9",
    "v_fixed_", "v_8", "v_tbl_ok", "v_tbl_bad_value", "v_tbl_bad_key",
    "v_tbl_two_bad", "v_tbl_no_eq", "v_tbl_filter", "true", "false",
    "one", "zero", "kSnappyCompression", "kHashSearch", "kxxHash",
    "kCompactionStyleUniversal"}

(***************************************************************************)
(* The configuration objects: a function from the fields the code writes   *)
(* to their values.  ColumnFamilyOptions and MutableCFOptions share the    *)
(* memtable, compaction and misc fields.                                   *)
(***************************************************************************)
MutableCFFields == MemtableFields \cup CompactionFields \cup MiscFields

ColumnFamilyFields == MutableCFFields \cup ColumnFamilyOwnFields

Domain(a) ==
    IF a \in {"GetDBOptionsFromMap", "GetDBOptionsFromString"} THEN "db"
    ELSE IF a \in {"GetColumnFamilyOptionsFromMap", "GetColumnFamilyOptionsFromString"}
    THEN "cf"
    ELSE IF a \in {"GetBlockBasedTableOptionsFromMap",
                   "GetBlockBasedTableOptionsFromString"} THEN "table"
    ELSE "mutable"

Fields(d) ==
    IF d = "db" THEN DBFields
    ELSE IF d = "cf" THEN ColumnFamilyFields
    ELSE IF d = "table" THEN TableFields
    ELSE MutableCFFields

RECURSIVE SampleValue(_, _)
\* A value of the type of field f; different i give different values.
SampleValue(f, i) ==
    IF f \in BoolFields THEN i % 2 = 0
    ELSE IF f \in IntFields THEN i
    ELSE IF f \in WordFields THEN Word(i)
    ELSE IF f \in DoubleFields
    THEN [neg |-> FALSE, int |-> <<DigitChars[i + 1]>>, frac |-> <<>>]
    ELSE IF f \in StringFields THEN <<"/", DigitChars[i + 1]>>
    ELSE IF f = "max_bytes_for_level_multiplier_additional" THEN <<i>>
    ELSE IF f = "compression_per_level"
    THEN << <<"kNoCompression", "kSnappyCompression", "kZlibCompression">>[i] >>
    ELSE IF f = "compression"
    THEN <<"kSnappyCompression", "kNoCompression", "kZlibCompression">>[i]
    ELSE IF f = "index_type"
    THEN <<"kBinarySearch", "kHashSearch", "kBinarySearch">>[i]
    ELSE IF f = "checksum" THEN <<"kCRC32c", "kxxHash", "kNoChecksum">>[i]
    ELSE IF f = "compaction_style"
    THEN <<"kCompactionStyleLevel", "kCompactionStyleUniversal",
           "kCompactionStyleFIFO">>[i]
    ELSE IF f \in {"block_cache", "block_cache_compressed"}
    THEN IF i = 1 THEN nullptr ELSE <<"LRUCache", Word(i)>>
    ELSE IF f = "filter_policy"
    THEN IF i = 1 THEN nullptr ELSE NewBloomFilterPolicy(i, FALSE)
    ELSE IF f = "prefix_extractor"
    THEN IF i = 1 THEN nullptr ELSE NewFixedPrefixTransform(i)
    ELSE NewBlockBasedTableFactory([g \in TableFields |-> SampleValue(g, i)])

\* The configurations a caller passes as the base: for the table options
\* the defaults and one other, for the other domains two that differ.
Bases(d) ==
    IF d = "table"
    THEN {BlockBasedTableOptions, [f \in TableFields |-> SampleValue(f, 2)]}
    ELSE {[f \in Fields(d) |-> SampleValue(f, i)] : i \in 1..2}

\* What the caller's output object holds before the call.
Stale(d) == [f \in Fields(d) |-> SampleValue(f, 3)]

(***************************************************************************)
(* The public operations                                                   *)
(***************************************************************************)
FromStringApis == {"GetBlockBasedTableOptionsFromString",
                   "GetColumnFamilyOptionsFromString", "GetDBOptionsFromString"}
FromMapApis == {"GetMutableOptionsFromStrings", "GetBlockBasedTableOptionsFromMap",
                "GetColumnFamilyOptionsFromMap", "GetDBOptionsFromMap"}
ApplyApis == FromStringApis \cup FromMapApis

(***************************************************************************)
(* StringToMap as steps: the entry, then one action per loop iteration.    *)
(***************************************************************************)
\* size_t pos = 0; std::string opts = trim(opts_str);
TokStart ==
    /\ pc = "tokenize"
    /\ opts' = trim(opts_str)
    /\ pos' = 0
    /\ oob' = TrimReadsOutOfRange(opts_str)
    /\ pc' = "loop"
    /\ UNCHANGED <<api, opts_str, opts_map, entries, base_options, new_options,
                   visited, status>>

\* Where the caller of StringToMap goes on with the Status s: the
\* ...FromString operations return a failure and go on to ...FromMap.
AfterStringToMap(a, s) ==
    IF a \in FromStringApis /\ s.code = "OK" THEN "apply" ELSE "done"

\* An iteration that goes on without moving the read position
TokStepNoAdvance ==
    /\ pc = "loop"
    /\ IF ~(pos < Len(opts))
       THEN /\ pc' = AfterStringToMap(api, OK)
            /\ status' = IF pc' = "done" THEN OK ELSE Pending
            /\ UNCHANGED <<pos, opts_map, oob>>
       ELSE \E r \in {LoopBody(opts, pos, opts_map)} :
                /\ pos' = IF r.end = "continue" THEN pos ELSE r.pos
                /\ opts_map' = r.map
                /\ oob' = (oob \/ r.oob)
                /\ pc' = IF r.end = "continue" THEN "loop"
                         ELSE AfterStringToMap(api, r.ret)
                /\ status' = IF pc' = "done" THEN r.ret ELSE Pending
    /\ UNCHANGED <<api, opts_str, opts, entries, base_options, new_options, visited>>

\* The loop condition fails, or an iteration breaks: return Status::OK().
\* An iteration returns an error Status.  Otherwise the loop goes on.
TokStep ==
    /\ pc = "loop"
    /\ IF ~(pos < Len(opts))
       THEN /\ pc' = AfterStringToMap(api, OK)
            /\ status' = IF pc' = "done" THEN OK ELSE Pending
            /\ UNCHANGED <<pos, opts_map, oob>>
       ELSE \E r \in {LoopBody(opts, pos, opts_map)} :
                /\ pos' = r.pos
                /\ opts_map' = r.map
                /\ oob' = (oob \/ r.oob)
                /\ pc' = IF r.end = "continue" THEN "loop"
                         ELSE AfterStringToMap(api, r.ret)
                /\ status' = IF pc' = "done" THEN r.ret ELSE Pending
    /\ UNCHANGED <<api, opts_str, opts, entries, base_options, new_options, visited>>

(***************************************************************************)
(* The apply operations as steps: the copy of the base, then one action    *)
(* per option visited.  An unordered_map is visited in an order the code   *)
(* does not control: every order is possible.                              *)
(***************************************************************************)
Range(f) == {f[i] : i \in DOMAIN f}

\* The options the loop has not visited yet.
Unvisited == DOMAIN opts_map \ Range(visited)

\* The orders of the nested map of a block_based_table_factory value.
NestedOrders(d, name, value) ==
    IF d = "cf" /\ name = Lit.block_based_table_factory
    THEN Orders(DOMAIN StringToMap(value).map)
    ELSE {<<>>}

\* The loop body run on a fresh object: what earlier options wrote is lost
OptionsBodyRestart(d, name, value, o, ord) ==
    IF d = "db" THEN DBOptionsBody(name, value, Stale(d))
    ELSE IF d = "cf" THEN ColumnFamilyOptionsBody(name, value, Stale(d), ord)
    ELSE IF d = "table" THEN TableOptionsBody(name, value, Stale(d))
    ELSE MutableOptionsBody(name, value, Stale(d))

\* The loop body of the domain's apply operation for one option.
OptionsBody(d, name, value, o, ord) ==
    IF d = "db" THEN DBOptionsBody(name, value, o)
    ELSE IF d = "cf" THEN ColumnFamilyOptionsBody(name, value, o, ord)
    ELSE IF d = "table" THEN TableOptionsBody(name, value, o)
    ELSE MutableOptionsBody(name, value, o)

\* The copy left out: the output keeps what it held before the call
CopyBaseSkipped ==
    /\ pc = "apply"
    /\ pc' = "visit"
    /\ UNCHANGED <<api, opts_str, opts, pos, opts_map, oob, entries, base_options,
                   new_options, visited, status>>

\* The copy made in the wrong direction: the base takes the output's values
CopyBaseAliased ==
    /\ pc = "apply"
    /\ new_options' = base_options
    /\ base_options' = new_options
    /\ pc' = "visit"
    /\ UNCHANGED <<api, opts_str, opts, pos, opts_map, oob, entries, visited, status>>

\* *new_options = base_options;
CopyBase ==
    /\ pc = "apply"
    /\ new_options' = base_options
    /\ pc' = "visit"
    /\ UNCHANGED <<api, opts_str, opts, pos, opts_map, oob, entries, base_options,
                   visited, status>>

\* One iteration of for (const auto& o : opts_map), or the return after it.
VisitOption ==
    /\ pc = "visit"
    /\ IF Unvisited = {}
       THEN /\ status' = OK
            /\ pc' = "done"
            /\ UNCHANGED <<new_options, visited>>
       ELSE \E name \in Unvisited :
            \E ord \in NestedOrders(Domain(api), name, opts_map[name]) :
            \E r \in {OptionsBody(Domain(api), name, opts_map[name], new_options, ord)} :
               /\ new_options' = r.opts
               /\ visited' = Append(visited, name)
               /\ status' = IF r.status.code = "OK" THEN Pending ELSE r.status
               /\ pc' = IF r.status.code = "OK" THEN "visit" ELSE "done"
    /\ UNCHANGED <<api, opts_str, opts, pos, opts_map, oob, entries, base_options>>

(***************************************************************************)
(* The inputs of the tokenizer runs.                                       *)
(***************************************************************************)
Alphabet == {"a", "=", ";", "{", "}", " "}

Strings(n) == UNION {[1..k -> Alphabet] : k \in 0..n}

\* The keys and values of the formatted inputs: plain and nested values,
\* padded and empty ones.
EntryKeys == {<<"a">>, <<"b">>, <<"c">>}
EntryValues == {<<"1">>, <<>>, <<" ", "{", "a", "=", "{", "1", "}", ";", "b", "}", " ">>}

RECURSIVE Format(_)
\* key1=value1;key2=value2;...
Format(es) ==
    IF es = <<>> THEN <<>>
    ELSE es[1][1] \o <<"=">> \o es[1][2]
         \o (IF Len(es) = 1 THEN <<>> ELSE <<";">> \o Format(Tail(es)))

EntrySeqs == UNION {[1..k -> EntryKeys \X EntryValues] : k \in 1..MaxEntries}

InitTok ==
    /\ api = "StringToMap"
    /\ \/ /\ opts_str \in Strings(MaxLen)
          /\ entries = <<>>
       \/ /\ entries \in EntrySeqs
          /\ \E trailing \in {<<>>, <<";">>} :
                opts_str = Format(entries) \o trailing
    /\ opts = <<>>
    /\ pos = 0
    /\ opts_map = EmptyMap
    /\ oob = FALSE
    /\ base_options = <<>>
    /\ new_options = <<>>
    /\ visited = <<>>
    /\ pc = "tokenize"
    /\ status = Pending

NextTok == TokStart \/ TokStep

SpecTok == InitTok /\ [][NextTok]_vars

(***************************************************************************)
(* The inputs of the apply runs: every key with every value as a map of    *)
(* one option, and maps and strings of several options over a sample of    *)
(* keys, each with a value it accepts and one it rejects.                  *)
(***************************************************************************)
KeyNames == MemtableKeys \cup CompactionKeys \cup MiscKeys \cup TableKeys
            \cup ColumnFamilyKeys \cup DBKeys \cup {"not_a_real_option"}

SingleMaps ==
    {EmptyMap} \cup {MapPut(EmptyMap, Lit[k], Lit[v]) : k \in KeyNames, v \in ValueNames}

Samples(d) ==
    IF d = "table"
    THEN [block_size |-> <<"v_4k", "v_bogus">>,
          checksum |-> <<"kxxHash", "v_bogus">>,
          filter_policy |-> <<"v_bloom_10_true", "v_bloom_10">>,
          not_a_real_option |-> <<"one">>]
    ELSE IF d = "cf"
    THEN [write_buffer_size |-> <<"v_4k", "v_bogus">>,
          compression |-> <<"kSnappyCompression", "v_bogus">>,
          block_based_table_factory |-> <<"v_tbl_ok", "v_tbl_two_bad">>,
          prefix_extractor |-> <<"v_fixed_8", "v_8">>,
          compaction_options_universal |-> <<"one">>,
          not_a_real_option |-> <<"one">>]
    ELSE IF d = "db"
    THEN [create_if_missing |-> <<"true", "v_bogus">>,
          max_open_files |-> <<"v_10", "v_99999999999">>,
          wal_dir |-> <<"v_bogus">>,
          db_paths |-> <<"one">>,
          not_a_real_option |-> <<"one">>]
    ELSE [write_buffer_size |-> <<"v_4k", "v_bogus">>,
          soft_rate_limit |-> <<"v_1_5", "v_bogus">>,
          compression |-> <<"kSnappyCompression">>]

\* The maps of 2..MaxOpts sampled options.
SampleMaps(d) ==
    LET sm == Samples(d)
        picks == UNION {[S -> 1..2] : S \in {T \in SUBSET DOMAIN sm :
                                        Cardinality(T) \in 2..MaxOpts}}
    IN  {[key \in {Lit[k] : k \in DOMAIN c} |->
             Lit[LET k == CHOOSE x \in DOMAIN c : Lit[x] = key IN sm[k][c[k]]]] :
         c \in {c \in picks : \A k \in DOMAIN c : c[k] <= Len(sm[k])}}

InputMaps(d) == SingleMaps \cup SampleMaps(d)

\* The text of a sampled option in an option string: a nested value in braces.
SampleEntries(d) ==
    LET sm == Samples(d)
    IN  UNION {{<<Lit[k],
                  IF k = "block_based_table_factory"
                  THEN <<"{">> \o Lit[sm[k][i]] \o <<"}">>
                  ELSE Lit[sm[k][i]]>> : i \in 1..Len(sm[k])} : k \in DOMAIN sm}

\* The entry sequences the option strings are formatted from.
InputEntries(d) == UNION {[1..n -> SampleEntries(d)] : n \in 1..MaxOpts}

\* A call of an apply operation: on a string to tokenize into a fresh local
\* map, or on a map.
Init ==
    /\ api \in ApplyApis
    /\ base_options \in Bases(Domain(api))
    /\ new_options = Stale(Domain(api))
    /\ visited = <<>>
    /\ opts = <<>>
    /\ pos = 0
    /\ oob = FALSE
    /\ status = Pending
    /\ IF api \in FromStringApis
       THEN /\ entries \in InputEntries(Domain(api))
            /\ opts_str = Format(entries)
            /\ opts_map = EmptyMap
            /\ pc = "tokenize"
       ELSE /\ entries = <<>>
            /\ opts_str = <<>>
            /\ opts_map \in InputMaps(Domain(api))
            /\ pc = "apply"

Next == TokStart \/ TokStep \/ CopyBase \/ VisitOption

Spec == Init /\ [][Next]_vars

\* Every call: of StringToMap alone, or of an apply operation.
InitAll == InitTok \/ Init

SpecAll == InitAll /\ [][Next]_vars

(***************************************************************************)
(* Properties of StringToMap                                               *)
(***************************************************************************)
Done == pc = "done"

Min(S) == CHOOSE x \in S : \A y \in S : x <= y

\* The number of positions lo..hi of s holding c.
CountIn(s, c, lo, hi) == Cardinality({i \in lo..hi : At(s, i) = c})

\* The brace depth after position i of a block opened at position open.
DepthAt(s, open, i) ==
    1 + CountIn(s, "{", open + 1, i) - CountIn(s, "}", open + 1, i)

\* The positions after open at which the depth is 0.
Closes(s, open) == {i \in (open + 1)..(Len(s) - 1) : DepthAt(s, open, i) = 0}

\* The positions >= p that hold no whitespace.
Solid(s, p) == {i \in p..(Len(s) - 1) : ~isspace(At(s, i))}

\* The positions >= p that hold c.
Holding(s, c, p) == {i \in p..(Len(s) - 1) : At(s, i) = c}

\* Where the value of the entry starting at p begins (Len(s): nowhere).
ValueStart(s, p) ==
    LET eq == Min(Holding(s, "=", p))
    IN  IF Solid(s, eq + 1) = {} THEN Len(s) ELSE Min(Solid(s, eq + 1))

IsNested(s, p) == ValueStart(s, p) < Len(s) /\ At(s, ValueStart(s, p)) = "{"

\* The entry of s starting at p is defective: (a), (b), (c) or (d).
EntryDefect(s, p) ==
    \/ Holding(s, "=", p) = {}
    \/ /\ Holding(s, "=", p) # {}
       /\ \/ Min(Solid(s, p)) >= Min(Holding(s, "=", p))
          \/ /\ IsNested(s, p)
             /\ Closes(s, ValueStart(s, p)) = {}
          \/ /\ IsNested(s, p)
             /\ Closes(s, ValueStart(s, p)) # {}
             /\ LET after == Solid(s, Min(Closes(s, ValueStart(s, p))) + 1)
                IN  after # {} /\ At(s, Min(after)) # ";"

\* Where the entry after the (sound) entry starting at p starts.
EntryEnd(s, p) ==
    LET v == ValueStart(s, p)
        semis == Holding(s, ";", IF IsNested(s, p) THEN Min(Closes(s, v)) + 1 ELSE v)
    IN  IF v >= Len(s) \/ semis = {} THEN Len(s) ELSE Min(semis) + 1

RECURSIVE GrammarError(_, _)
\* Consuming s entry by entry from p reaches a defective entry.
GrammarError(s, p) ==
    /\ p < Len(s)
    /\ \/ EntryDefect(s, p)
       \/ GrammarError(s, EntryEnd(s, p))

\* C4: StringToMap returns an InvalidArgument status exactly when, consuming
\* the trimmed input entry by entry, it reaches an entry with no '=', with an
\* empty key, with an unclosed '{' or with a character other than ';' after
\* the closing '}'; every other input returns OK.  "aaa" (no '=') fails,
\* "a=" records the empty value, "a=a;" succeeds.
C4_GrammarErrorIff ==
    (api = "StringToMap" /\ Done) =>
        /\ status.code \in {"OK", "InvalidArgument"}
        /\ (status.code = "InvalidArgument") <=> GrammarError(opts, 0)
        /\ opts_str = <<"a", "a", "a">> => status.code = "InvalidArgument"
        /\ opts_str = <<"a", "=">> =>
               status = OK /\ opts_map = MapPut(EmptyMap, <<"a">>, <<>>)
        /\ opts_str = <<"a", "=", "a", ";">> =>
               status = OK /\ opts_map = MapPut(EmptyMap, <<"a">>, <<"a">>)

\* A run that failed on a character other than ';' after a nested block.
C4_Witness ==
    /\ api = "StringToMap" /\ Done
    /\ opts_str = <<"a", "=", "{", "}", "a">>
    /\ status = InvalidArgument(Lit.msg_unexpected_chars)

\* Every prefix of v closes no more braces than it opened, and v closes all.
Balanced(v) ==
    /\ \A i \in 0..(Len(v) - 1) : CountIn(v, "{", 0, i) >= CountIn(v, "}", 0, i)
    /\ CountIn(v, "{", 0, Len(v) - 1) = CountIn(v, "}", 0, Len(v) - 1)

\* The next iteration reads an entry with a key whose value opens a block
\* that closes.
AtNestedEntry ==
    /\ pc = "loop" /\ pos < Len(opts)
    /\ Holding(opts, "=", pos) # {}
    /\ Min(Solid(opts, pos)) < Min(Holding(opts, "=", pos))
    /\ IsNested(opts, pos)
    /\ Closes(opts, ValueStart(opts, pos)) # {}

\* C5: an iteration whose value begins with '{' records, for its key, the
\* trimmed text strictly between that '{' and the first later '}' at which
\* the depth (1 at the '{') is back to 0; the recorded text has balanced
\* braces, no other key is recorded from inside the block, and the next
\* iteration starts after the closing '}'.
C5_NestedValue ==
    [][AtNestedEntry =>
        LET open == ValueStart(opts, pos)
            close == Min(Closes(opts, open))
            key == trim(Substr(opts, pos, Min(Holding(opts, "=", pos)) - pos))
        IN  /\ DOMAIN opts_map' = DOMAIN opts_map \cup {key}
            /\ opts_map'[key] = trim(Substr(opts, open + 1, close - open - 1))
            /\ Balanced(opts_map'[key])
            /\ \A k \in DOMAIN opts_map \ {key} : opts_map'[k] = opts_map[k]
            /\ pc' = "loop" => pos' > close]_vars

\* A successful run that recorded a block holding ';', '=' and a block.
C5_Witness ==
    /\ api = "StringToMap" /\ Done /\ status = OK
    /\ Len(entries) = 1
    /\ DOMAIN opts_map = {<<"a">>}
    /\ opts_map[<<"a">>] = <<"a", "=", "{", "1", "}", ";", "b">>

(***************************************************************************)
(* C1: order of the entries                                                *)
(***************************************************************************)
Injective(f) == \A i, j \in DOMAIN f : f[i] = f[j] => i = j

\* The reorderings of the sequence es.
Reorderings(es) ==
    {[i \in 1..Len(es) |-> es[q[i]]] :
        q \in {f \in [1..Len(es) -> 1..Len(es)] : Injective(f)}}

DistinctKeys(es) == \A i, j \in 1..Len(es) : es[i][1] = es[j][1] => i = j

\* The last entry of es with key k.
LastOf(es, k) == es[CHOOSE i \in 1..Len(es) :
                       /\ es[i][1] = k
                       /\ \A j \in (i + 1)..Len(es) : es[j][1] # k]

\* C1: for an input formatted from entries, StringToMap succeeds; the map
\* holds exactly the keys of the entries, each with the value StringToMap
\* records for the key's last entry alone; and when the keys are pairwise
\* distinct, every reordering of the entries yields the same map.
C1_OrderIndependent ==
    (api = "StringToMap" /\ Done /\ entries # <<>>) =>
        /\ status = OK
        /\ DOMAIN opts_map = {entries[i][1] : i \in 1..Len(entries)}
        /\ \A k \in DOMAIN opts_map :
              opts_map[k] = StringToMap(Format(<<LastOf(entries, k)>>)).map[k]
        /\ DistinctKeys(entries) =>
              \A es \in Reorderings(entries) :
                  LET r == StringToMap(Format(es))
                  IN  r.status = OK /\ r.map = opts_map

\* A finished run whose input repeats a key with different values around
\* another key.
C1_Witness ==
    /\ api = "StringToMap" /\ Done /\ status = OK
    /\ Len(entries) = 3
    /\ entries[1][1] = entries[3][1] /\ entries[1][1] # entries[2][1]
    /\ entries[1][2] # entries[3][2]
    /\ opts_map[entries[1][1]] = <<"1">>

(***************************************************************************)
(* Properties of the apply operations                                      *)
(***************************************************************************)
\* The keys the registries of a domain recognize, as the strings of an input.
Keys(d) ==
    IF d = "db" THEN DBKeys
    ELSE IF d = "cf"
    THEN MemtableKeys \cup CompactionKeys \cup MiscKeys \cup ColumnFamilyKeys
    ELSE IF d = "table" THEN TableKeys
    ELSE MemtableKeys \cup CompactionKeys \cup MiscKeys

DomainKeys(d) == {Lit[k] : k \in Keys(d)}

\* The keys a domain knows but does not support.
Reserved(d) ==
    IF d = "cf" THEN {Lit.compaction_options_universal}
    ELSE IF d = "db" THEN {Lit.db_paths}
    ELSE {}

\* The key whose value a field of a configuration is set from.
KeyOf(f) ==
    IF f = "disableDataSync" THEN Lit.disable_data_sync
    ELSE IF f = "table_factory" THEN Lit.block_based_table_factory
    ELSE IF f \in {"compression_opts.window_bits", "compression_opts.level",
                   "compression_opts.strategy"} THEN Lit.compression_opts
    ELSE IF f = "compaction_options_fifo.max_table_files_size"
    THEN Lit.compaction_options_fifo
    ELSE Lit[f]

\* The entry name=value applied alone succeeds in domain d.
Accepts(d, name, value) ==
    \A ord \in NestedOrders(d, name, value) :
        OptionsBody(d, name, value, Stale(d), ord).status.code = "OK"

\* The key of the option visited last: the one a failed call stopped at.
LastVisited == visited[Len(visited)]

\* The string s holds the string t.
Contains(s, t) == \E i \in 0..(Len(s) - Len(t)) : Substr(s, i, Len(t)) = t

\* The number of ':' in a value.
Colons(v) == Cardinality({i \in 1..Len(v) : v[i] = ":"})

(***************************************************************************)
(* C2: partial update                                                      *)
(***************************************************************************)
\* C2: after a successful apply operation of the engine, namespace or table
\* domain, on a map or on a string, every field whose key is not among the
\* keys of the input holds the value the base holds for it.
C2_PartialUpdate ==
    (Done /\ status.code = "OK" /\ Domain(api) \in {"db", "cf", "table"}) =>
        \A f \in DOMAIN new_options :
            KeyOf(f) \notin DOMAIN opts_map => new_options[f] = base_options[f]

\* A successful call on a string of two options has changed the base's copy
\* and left other fields alone.
C2_Witness ==
    /\ Done
    /\ status.code = "OK"
    /\ api = "GetColumnFamilyOptionsFromString"
    /\ Cardinality(DOMAIN opts_map) = 2
    /\ new_options # base_options
    /\ \E f \in DOMAIN new_options :
          KeyOf(f) \notin DOMAIN opts_map /\ new_options[f] = base_options[f]

(***************************************************************************)
(* C3: the base is not written                                             *)
(***************************************************************************)
\* C3: no step of an apply operation (engine, namespace, table, mutable
\* options), in a call that succeeds or in one that fails at any key,
\* changes the base configuration; the writes go to the output.
C3_BaseUnchanged == [][base_options' = base_options]_vars

\* A call that failed at its second key after writing the first to the output.
C3_Witness ==
    /\ Done
    /\ api \in ApplyApis
    /\ status.code = "InvalidArgument"
    /\ Len(visited) = 2
    /\ new_options # base_options

(***************************************************************************)
(* C6: the nested table options                                            *)
(***************************************************************************)
\* The step of GetColumnFamilyOptionsFromMap that visits
\* block_based_table_factory.
FactoryStep ==
    /\ pc = "visit"
    /\ Domain(api) = "cf"
    /\ Len(visited') = Len(visited) + 1
    /\ visited'[Len(visited')] = Lit.block_based_table_factory

\* What GetBlockBasedTableOptionsFromString returns on the default table
\* options and the value, for every order of visiting the nested map.
InnerResults(value) ==
    {GetBlockBasedTableOptionsFromString(BlockBasedTableOptions, value, ord) :
        ord \in Orders(DOMAIN StringToMap(value).map)}

\* C6: visiting block_based_table_factory does what
\* GetBlockBasedTableOptionsFromString does on the default table options and
\* the key's value: on success the output's table factory is built from its
\* result (block_size 8192 and block_restart_interval 4 for the example, the
\* other fields the defaults), on failure the call ends with its error as it
\* is and the output's table factory is not replaced.
C6_NestedTableFactory ==
    [][FactoryStep =>
        \E inner \in InnerResults(opts_map[Lit.block_based_table_factory]) :
            IF inner.status.code = "OK"
            THEN /\ new_options' = [new_options EXCEPT !["table_factory"] =
                                       NewBlockBasedTableFactory(inner.opts)]
                 /\ pc' = "visit"
                 /\ opts_map[Lit.block_based_table_factory] = Lit.v_tbl_ok =>
                       inner.opts = [BlockBasedTableOptions EXCEPT
                                        !.block_size = Word(8192),
                                        !.block_restart_interval = 4]
            ELSE /\ status' = inner.status
                 /\ pc' = "done"
                 /\ new_options' = new_options]_vars

\* The example: a successful call whose output holds a factory of the default
\* table options with block_size 8192 and block_restart_interval 4, on a base
\* whose factory holds other table options.
C6_Witness ==
    /\ Done
    /\ status.code = "OK"
    /\ api = "GetColumnFamilyOptionsFromString"
    /\ Lit.block_based_table_factory \in DOMAIN opts_map
    /\ opts_map[Lit.block_based_table_factory] = Lit.v_tbl_ok
    /\ new_options["table_factory"] =
          NewBlockBasedTableFactory([BlockBasedTableOptions EXCEPT
                                        !.block_size = Word(8192),
                                        !.block_restart_interval = 4])
    /\ base_options["table_factory"][2].block_restart_interval # 16

(***************************************************************************)
(* C7: unrecognized keys                                                   *)
(***************************************************************************)
\* C7: in the engine, namespace and table domains, an input in which one key
\* is recognized by no registry of the domain and every other entry is
\* accepted fails with InvalidArgument "Unrecognized option: " and that key,
\* for every value of the key.
C7_UnrecognizedKey ==
    (Done /\ Domain(api) \in {"db", "cf", "table"} /\ visited # <<>>) =>
        \A k \in DOMAIN opts_map :
            (/\ k \notin DomainKeys(Domain(api))
             /\ \A j \in DOMAIN opts_map \ {k} : Accepts(Domain(api), j, opts_map[j]))
            => status = [code |-> "InvalidArgument", msg |-> Lit.msg_unrecognized \o k]

\* not_a_real_option visited after an accepted option.
C7_Witness ==
    /\ Done
    /\ api = "GetDBOptionsFromString"
    /\ Len(visited) = 2
    /\ visited[2] = Lit.not_a_real_option
    /\ status = [code |-> "InvalidArgument",
                 msg |-> Lit.msg_unrecognized \o Lit.not_a_real_option]

(***************************************************************************)
(* C8: rejected values                                                     *)
(***************************************************************************)
\* C8: when the value of a recognized key is rejected, the call fails with
\* InvalidArgument and a message that holds the name of the key.  (A reserved
\* key and the nested block_based_table_factory fail in their own ways.)
C8_RejectedValueNamesKey ==
    (Done /\ api \in ApplyApis /\ visited # <<>> /\ status.code # "OK") =>
        ((/\ LastVisited \in DomainKeys(Domain(api)) \ Reserved(Domain(api))
          /\ LastVisited # Lit.block_based_table_factory)
         => status.code = "InvalidArgument" /\ Contains(status.msg, LastVisited))

(***************************************************************************)
(* C9: reserved keys                                                       *)
(***************************************************************************)
\* C9: an input holding compaction_options_universal (namespace) or db_paths
\* (engine) fails; when every other entry is accepted it fails with
\* NotSupported "Not supported: " and the key, for every value of the key;
\* NotSupported is returned only at a reserved key, and every failure at
\* another key is InvalidArgument.
C9_ReservedKeys ==
    (Done /\ api \in ApplyApis /\ visited # <<>>) =>
        /\ DOMAIN opts_map \cap Reserved(Domain(api)) # {} => status.code # "OK"
        /\ \A k \in DOMAIN opts_map \cap Reserved(Domain(api)) :
              (\A j \in DOMAIN opts_map \ {k} : Accepts(Domain(api), j, opts_map[j]))
              => status = [code |-> "NotSupported", msg |-> Lit.msg_not_supported \o k]
        /\ status.code = "NotSupported" => LastVisited \in Reserved(Domain(api))
        /\ (status.code # "OK" /\ LastVisited \notin Reserved(Domain(api)))
              => status.code = "InvalidArgument"

\* db_paths visited after an accepted option.
C9_Witness ==
    /\ Done
    /\ api = "GetDBOptionsFromString"
    /\ Len(visited) = 2
    /\ visited[2] = Lit.db_paths
    /\ status = [code |-> "NotSupported", msg |-> Lit.msg_not_supported \o Lit.db_paths]

(***************************************************************************)
(* C10: the tagged and positional encodings                                *)
(***************************************************************************)
\* C10: a call succeeds on compression_opts only with three fields, on
\* prefix_extractor only with the tag fixed: and one field, on filter_policy
\* only with the tag bloomfilter: and two fields; bloomfilter:10:true gives
\* a filter of 10 bits per key built block-based.
C10_ExactFieldCount ==
    (Done /\ api \in ApplyApis /\ status.code = "OK") =>
        /\ (Domain(api) = "cf" /\ Lit.compression_opts \in DOMAIN opts_map)
              => Colons(opts_map[Lit.compression_opts]) = 2
        /\ (Domain(api) = "cf" /\ Lit.prefix_extractor \in DOMAIN opts_map)
              => /\ StartsWith(opts_map[Lit.prefix_extractor], Lit.fixed_)
                 /\ Colons(opts_map[Lit.prefix_extractor]) = 1
        /\ (Domain(api) = "table" /\ Lit.filter_policy \in DOMAIN opts_map)
              => /\ StartsWith(opts_map[Lit.filter_policy], Lit.bloomfilter_)
                 /\ Colons(opts_map[Lit.filter_policy]) = 2
                 /\ opts_map[Lit.filter_policy] = Lit.v_bloom_10_true =>
                       new_options["filter_policy"] = NewBloomFilterPolicy(10, TRUE)

(***************************************************************************)
(* C11: termination                                                        *)
(***************************************************************************)
\* An iteration of the tokenizer loop that goes on to the next one leaves
\* the read position further on, and no further than one past the end.
TokAdvances ==
    (pc = "loop" /\ pc' = "loop") => (pos' > pos /\ pos' <= Len(opts) + 1)

\* The vectors the two colon-splitting loops have filled when the call
\* succeeded: one element for each ':' of the value, and one more.
ColonLoopsBounded ==
    (Done /\ api \in ApplyApis /\ status.code = "OK") =>
        /\ (Domain(api) = "cf" /\ Lit.compression_per_level \in DOMAIN opts_map)
              => Len(new_options["compression_per_level"])
                    = Colons(opts_map[Lit.compression_per_level]) + 1
        /\ (Domain(api) \in {"cf", "mutable"}
              /\ Lit.max_bytes_for_level_multiplier_additional \in DOMAIN opts_map)
              => Len(new_options["max_bytes_for_level_multiplier_additional"])
                    = Colons(opts_map[Lit.max_bytes_for_level_multiplier_additional]) + 1

\* A bound on the number of steps a call has left: two for each character
\* the tokenizer has still to read (an iteration reads at least one and adds
\* at most one entry to the map), one for each entry still to visit, and one
\* for each change of phase.
Variant ==
    CASE pc = "tokenize" -> 2 * (Len(opts_str) + 1) + 4
      [] pc = "loop"     -> 2 * (Len(opts) + 1 - pos) + 3 + Cardinality(DOMAIN opts_map)
      [] pc = "apply"    -> 2 + Cardinality(DOMAIN opts_map)
      [] pc = "visit"    -> 1 + Cardinality(DOMAIN opts_map) - Len(visited)
      [] pc = "done"     -> 0

\* A call that has not returned has a next step: the entry and the copy
\* always have one, an iteration of the tokenizer loop goes on, breaks or
\* returns, and every option still to visit has an order to be applied in.
HasNextStep ==
    \/ pc \in {"tokenize", "apply"}
    \/ /\ pc = "loop"
       /\ pos < Len(opts) =>
              LoopBody(opts, pos, opts_map).end \in {"continue", "break", "return"}
    \/ /\ pc = "visit"
       /\ \A name \in Unvisited :
              NestedOrders(Domain(api), name, opts_map[name]) # {}

\* C11: every call of StringToMap and of the apply operations ends: a call
\* that has not returned has a next step, and every step lowers a bound that
\* is a natural number.  Every iteration of the tokenizer loop that goes on
\* moves the read position forward within the input, and the colon-splitting
\* loops run once for each ':' of the value and once more.
C11_Terminates ==
    /\ [](Variant \in Nat)
    /\ [][Variant' < Variant]_vars
    /\ [](Done \/ HasNextStep)
    /\ [][TokAdvances]_vars
    /\ []ColonLoopsBounded

\* A call on an option string that went twice through the tokenizer loop and
\* twice through the apply loop.
C11_Witness ==
    /\ Done
    /\ api = "GetColumnFamilyOptionsFromString"
    /\ Len(entries) = 2
    /\ Len(visited) = 2
    /\ status.code = "OK"

(***************************************************************************)
(* C12: the reads of trim                                                  *)
(***************************************************************************)
\* A string made only of whitespace; the empty string is one.
AllSpace(str) == \A i \in 1..Len(str) : isspace(str[i])

\* C12: trim returns the empty string for an empty input and for an input
\* made only of whitespace, and no call of trim made by StringToMap, on the
\* input, a key, a plain value or a nested block, reads a character at an
\* index outside 0..length of its argument.
C12_TrimReadsInRange ==
    /\ (pc # "tokenize" /\ AllSpace(opts_str)) => opts = <<>>
    /\ ~oob

(***************************************************************************)
(* C13: the unsigned 32-bit coercer                                        *)
(***************************************************************************)
\* The fields set by ParseUint32; each is named as its key.
Uint32Fields == {
    "memtable_prefix_bloom_bits", "memtable_prefix_bloom_probes", "bloom_locality",
    "min_partial_merge_operands", "stats_dump_period_sec"}

\* The number of tens of bits the suffix after the numeral shifts by.
SuffixTens(value, endchar) ==
    LET c == At(value, endchar)
    IN  IF ~(endchar < Len(value)) THEN 0
        ELSE IF c \in {"k", "K"} THEN 1
        ELSE IF c \in {"m", "M"} THEN 2
        ELSE IF c \in {"g", "G"} THEN 3
        ELSE IF c \in {"t", "T"} THEN 4
        ELSE 0

\* The value denoted by the numeral w and a suffix shifting by 10 * k bits,
\* as a number of any width, is below 2^32: every set group of ten bits
\* lands below bit 30, or between bits 30 and 39 with a value below 4.
DenotedFits32(w, k) ==
    \A i \in 1..7 : w[i] # 0 => (i + k < 4 \/ (i + k = 4 /\ w[i] < 4))

\* The denoted value of one that fits: the groups moved up, none lost.
Denoted32(w, k) == [i \in 1..7 |-> IF i <= k THEN 0 ELSE w[i - k]]

\* C13: for a value that starts with a base-10 numeral within 64 bits, a
\* field set by ParseUint32 takes the value denoted by numeral and suffix
\* when that value is below 2^32 ("4k" gives 4096, "2m" 2097152, "1g"
\* 1073741824), and the call fails whenever the denoted value is not,
\* including when the shifted value exceeds 64 bits.
C13_Uint32OutOfRange ==
    (api \in ApplyApis /\ visited # <<>>) =>
        \A f \in Uint32Fields \cap DOMAIN new_options :
            (/\ LastVisited = Lit[f]
             /\ isdigit(At(opts_map[LastVisited], 0))
             /\ ~stoull(opts_map[LastVisited]).thrown)
            => LET value == opts_map[LastVisited]
                   w == stoull(value).val
                   k == SuffixTens(value, stoull(value).endchar)
               IN  IF DenotedFits32(w, k)
                   THEN /\ status.code # "InvalidArgument"
                        /\ new_options[f] = Denoted32(w, k)
                        /\ value = Lit.v_4k => new_options[f] = Word(4096)
                        /\ value = Lit.v_2m => new_options[f] = Word(2097152)
                        /\ value = Lit.v_1g => new_options[f] = <<0, 0, 0, 1, 0, 0, 0>>
                   ELSE status.code = "InvalidArgument"

(***************************************************************************)
(* C14: the visiting order                                                 *)
(***************************************************************************)
\* The entry name=value is defective in domain d: its key is not recognized,
\* or is reserved, or its value is rejected.
Defective(d, name, value) ==
    \/ name \notin DomainKeys(d)
    \/ name \in Reserved(d)
    \/ ~Accepts(d, name, value)

\* The configuration after the entry name=value is applied alone.
AppliedAlone(d, name, value) ==
    OptionsBody(d, name, value, Stale(d),
                CHOOSE ord \in NestedOrders(d, name, value) : TRUE).opts

\* The configuration the map alone determines: a field whose key is in the
\* map holds what that entry writes, every other field what the base holds.
Expected(d) ==
    [f \in Fields(d) |->
        IF KeyOf(f) \in DOMAIN opts_map
        THEN AppliedAlone(d, KeyOf(f), opts_map[KeyOf(f)])[f]
        ELSE base_options[f]]

\* No key is in two of the registries an operation tries in turn.
RegistriesDisjoint ==
    /\ MemtableKeys \cap CompactionKeys = {}
    /\ MemtableKeys \cap MiscKeys = {}
    /\ MemtableKeys \cap ColumnFamilyKeys = {}
    /\ CompactionKeys \cap MiscKeys = {}
    /\ CompactionKeys \cap ColumnFamilyKeys = {}
    /\ MiscKeys \cap ColumnFamilyKeys = {}

\* C14: in whatever order the entries of the map are visited, an apply
\* operation succeeds exactly when no entry is defective (every key is
\* recognized and not reserved, every value accepted); on success the
\* configuration is the one the map and the base alone determine; on
\* failure the entry visited last is a defective one; and the registries'
\* key sets are pairwise disjoint.
C14_VisitOrderIrrelevant ==
    /\ RegistriesDisjoint
    /\ (Done /\ api \in ApplyApis /\ (visited # <<>> \/ status.code = "OK")) =>
          /\ status.code = "OK" <=>
                \A k \in DOMAIN opts_map : ~Defective(Domain(api), k, opts_map[k])
          /\ status.code = "OK" => new_options = Expected(Domain(api))
          /\ status.code # "OK" =>
                Defective(Domain(api), LastVisited, opts_map[LastVisited])

\* A successful call that visited a key of the namespace's own set before a
\* key of the memtable registry.
C14_Witness ==
    /\ Done
    /\ api = "GetColumnFamilyOptionsFromMap"
    /\ status.code = "OK"
    /\ visited = <<Lit.compression, Lit.write_buffer_size>>
    /\ new_options # base_options

=============================================================================
